---- MODULE Spec2Model ----
(***************************************************************************)
(* A model of the OMYA content pipeline (src/courses/logic.py): the text   *)
(* chunker, the retry wrapper, the audio splitter, the path normaliser and *)
(* the two orchestrators pipeline_from_audio / pipeline_from_text with     *)
(* their cleanup; and of the web layer around it: upload_course            *)
(* (src/courses/views.py) with the user's credits and process_course_task  *)
(* (src/courses/tasks.py).                                                 *)
(*                                                                         *)
(* Texts are sequences of one-character strings, so that strip, split and  *)
(* join are computed as the code computes them.                            *)
(***************************************************************************)
EXTENDS Integers, Sequences, FiniteSets, TLC

VARIABLES
    \* ---- chunk_text applied to enumerated inputs (SpecChunk) ----
    ctText,         \* the text argument
    ctK,            \* sentences_per_chunk
    ctTarget,       \* target_tokens
    ctOut,          \* the returned list of chunks
    ctPc,           \* "input" before the call, "done" after it
    \* ---- one caller running the pipelines, run after run (Spec) ----
    cfgDelete,      \* DELETE_ORIGINAL_AUDIO
    fs,             \* the paths that exist on disk
    run,            \* number of the current pipeline call
    prevFailed,     \* the caller's previous call was pipeline_from_audio and a
                    \* stage of it raised
    mode,           \* "audio": pipeline_from_audio, "text": pipeline_from_text
    pc,             \* position in the running call
    rawText,        \* raw_text of pipeline_from_text
    nPlan,          \* split_audio_by_size: len(chunks), the spans to export
    outPaths,       \* split_audio_by_size: out_paths
    parts,          \* pipeline_from_audio: parts
    transcriptAll,  \* transcript_all
    transcript,
    chunks,
    summaries,
    outline,
    course,
    qcm,
    exos,
    attempt,        \* _retry: attempt
    pending,        \* the exception in flight while the finally block runs
    rmQueue,        \* cleanup_audio_files: the paths still to hand to _safe_rm
    outcome,        \* "running", "returned" or "raised"
    result,         \* the PipelineOutputs returned
    raisedExc,      \* the exception that reached the caller
    \* ---- history of the current call ----
    created,        \* segment files written by this call
    rmFailed,       \* paths whose last os.remove raised
    finished,       \* stage items completed successfully, in order
    lastCall,       \* the stage item that last did external work
    calls,          \* calls of fn by the latest _retry invocation
    fails,          \* failed calls of fn by the latest _retry invocation
    sleeps,         \* time.sleep arguments of the latest _retry invocation
    retryRaised,    \* the latest _retry invocation raised
    exhausted,      \* the item whose MAX_RETRIES-th attempt failed
    reduceInput,    \* the summaries argument reduce_summaries received
    stageExc,       \* the exception a stage raised
    cleanupRan,     \* cleanup_audio_files has run to its end
    fsAtStart,      \* the paths that existed when the call was made
    heard,          \* <<segment path, text>> of each transcription, in call order
    \* ---- split_audio_by_size on enumerated sizes and durations (SpecSplit) ----
    spFileSize,     \* file_size_bytes
    spAudioLen,     \* len(audio), in milliseconds
    spNumParts,     \* num_parts
    spPartDur,      \* part_duration_ms
    spStart,        \* start
    spChunks,       \* chunks: each a list of <<from, to>> stretches of the audio
    spSpans,        \* chunks as the while loop left them
    spOut,          \* what was exported, in the order of out_paths
    spPc,           \* position in split_audio_by_size
    spPass,         \* parity of the number of passes of the while loop
    \* ---- to_wsl_path applied to enumerated paths (SpecPath) ----
    wpImpl,         \* "logic": courses/logic.py, "utils": courses/utils/path.py
    wpIn,           \* the argument p
    wpOnce,         \* to_wsl_path(p)
    wpTwice,        \* to_wsl_path(to_wsl_path(p))
    wpPc,           \* "input", "once" or "twice"
    \* ---- upload_course requests and process_course_task runs (SpecWeb) ----
    wBal,           \* the user's row: audio_credits_s, text_credits_ch
    wDue,           \* the user's row: last_audio_reset is unset or over 30 days old
    wBase,          \* per kind, the balance the row started with or was last reset to
    wReq,           \* per request: position, in-memory user, source, cost, history
                    \* (changed: a step of the request changed a balance)
    wCourses,       \* the Course rows, by id
    wBroker,        \* course ids of the task messages: queued, delivered
    wInv,           \* per task run: position, in-memory course, history
    \* ---- two pipeline_from_audio calls at the same time (SpecTwo) ----
    twDelete,       \* DELETE_ORIGINAL_AUDIO
    twFs,           \* the paths that exist on disk
    twRun,          \* per call: source path, position, locals, files written
    twHarm          \* <<what, call, path>>: the call overwrote or removed a
                    \* file of the other call

ctVars == <<ctText, ctK, ctTarget, ctOut, ctPc>>
spVars == <<spFileSize, spAudioLen, spNumParts, spPartDur, spStart, spChunks,
            spSpans, spOut, spPc, spPass>>
wpVars == <<wpImpl, wpIn, wpOnce, wpTwice, wpPc>>
twVars == <<twDelete, twFs, twRun, twHarm>>
userVars == <<wBal, wDue, wBase>>
webVars == <<wBal, wDue, wBase, wReq, wCourses, wBroker, wInv>>

fileVars == <<fs, created, rmFailed>>
splitVars == <<nPlan, outPaths, parts>>
textVars == <<rawText, transcriptAll, transcript, chunks>>
genVars == <<summaries, outline, course, qcm, exos>>
retryVars == <<attempt, calls, fails, sleeps, retryRaised, exhausted>>
callerVars == <<cfgDelete, run, prevFailed, mode>>
histVars == <<fsAtStart, heard>>

plVars == <<cfgDelete, fs, run, prevFailed, mode, pc, rawText, nPlan, outPaths, parts,
            transcriptAll, transcript, chunks, summaries, outline, course, qcm,
            exos, attempt, pending, rmQueue, outcome, result, raisedExc, created,
            rmFailed, finished, lastCall, calls, fails, sleeps, retryRaised,
            exhausted, reduceInput, stageExc, cleanupRan, fsAtStart, heard>>

\* The variables the pipeline actions leave alone.
plOff == <<ctVars, spVars, wpVars, webVars, twVars>>
\* ... and those the other specifications leave alone.
ctOff == <<plVars, spVars, wpVars, webVars, twVars>>
spOff == <<plVars, ctVars, wpVars, webVars, twVars>>
wpOff == <<plVars, ctVars, spVars, webVars, twVars>>
webOff == <<plVars, ctVars, spVars, wpVars, twVars>>
twOff == <<plVars, ctVars, spVars, wpVars, webVars>>

vars == <<ctVars, plVars, spVars, wpVars, webVars, twVars>>

Max(a, b) == IF a >= b THEN a ELSE b

(***************************************************************************)
(* Characters.  Python's \s and str.strip() agree on what whitespace is.   *)
(***************************************************************************)
WS == {" ", "\n"}
Punct == {".", "!", "?"}

\* str.strip(): leading and trailing whitespace removed.
RECURSIVE LStrip(_)
LStrip(t) == IF t # <<>> /\ Head(t) \in WS THEN LStrip(Tail(t)) ELSE t

RECURSIVE RStrip(_)
RStrip(t) ==
    IF t # <<>> /\ t[Len(t)] \in WS THEN RStrip(SubSeq(t, 1, Len(t) - 1)) ELSE t

Strip(t) == RStrip(LStrip(t))

\* sep.join(items)
RECURSIVE Join(_, _)
Join(items, sep) ==
    IF items = <<>> THEN <<>>
    ELSE IF Len(items) = 1 THEN items[1]
    ELSE items[1] \o sep \o Join(Tail(items), sep)

\* First index >= i of t that holds no whitespace (Len(t) + 1 if none):
\* where a greedy \s+ match that starts at i ends.
RECURSIVE SkipWS(_, _)
SkipWS(t, i) == IF i <= Len(t) /\ t[i] \in WS THEN SkipWS(t, i + 1) ELSE i

\* re.split(r"(?<=[.!?])\s+", t): a separator is a maximal whitespace run
\* whose preceding character is one of . ! ?
RECURSIVE ReSplit(_, _, _, _)
ReSplit(t, i, cur, acc) ==
    IF i > Len(t) THEN Append(acc, cur)
    ELSE IF t[i] \in WS /\ i > 1 /\ t[i - 1] \in Punct
         THEN ReSplit(t, SkipWS(t, i), <<>>, Append(acc, cur))
         ELSE ReSplit(t, i + 1, Append(cur, t[i]), acc)

\* [c for c in chunks if c]
RECURSIVE NonEmpty(_)
NonEmpty(items) ==
    IF items = <<>> THEN <<>>
    ELSE IF Head(items) = <<>> THEN NonEmpty(Tail(items))
    ELSE <<Head(items)>> \o NonEmpty(Tail(items))

sentence_split(text) == NonEmpty(ReSplit(Strip(text), 1, <<>>, <<>>))

\* Characters per token of the fallback estimate.
CharsPerToken == 4

\* estimate_tokens without tiktoken: max(1, len(text) // 4).
estimate_tokens(text) == Max(1, Len(text) \div CharsPerToken)

\* candidate = (" ".join(buf + [s])).strip()
CandidateDropsBuf(buf, s) == Strip(s)
Candidate(buf, s) == Strip(Join(Append(buf, s), <<" ">>))

\* len(buf) >= sentences_per_chunk
BufFullOffByOne(buf, k) == Len(buf) > k
BufFull(buf, k) == Len(buf) >= k

\* buf = [s] after the current chunk was closed
BufAfterCloseEmpty(s) == <<>>
BufAfterClose(s) == <<s>>

\* " ".join(buf).strip(): the chunk made of the buffered sentences
ChunkOfLines(buf) == Strip(Join(buf, <<"\n">>))
ChunkOf(buf) == Strip(Join(buf, <<" ">>))

\* The loop of chunk_text over sents[i..], then the final flush.
RECURSIVE ChunkLoop(_, _, _, _, _, _)
ChunkLoop(sents, i, buf, out, k, target) ==
    IF i > Len(sents)
    THEN IF buf # <<>> THEN Append(out, ChunkOf(buf)) ELSE out
    ELSE LET s == sents[i]
             toks == estimate_tokens(Candidate(buf, s))
         IN IF buf # <<>> /\ (toks > target \/ BufFull(buf, k))
            THEN ChunkLoop(sents, i + 1, BufAfterClose(s),
                           Append(out, ChunkOf(buf)), k, target)
            ELSE ChunkLoop(sents, i + 1, Append(buf, s), out, k, target)

chunk_text(text, k, target) == ChunkLoop(sentence_split(text), 1, <<>>, <<>>, k, target)

(***************************************************************************)
(* The pipelines.  One caller runs pipeline_from_audio on the path Orig or *)
(* pipeline_from_text on a raw text, one call after the other.  The        *)
(* external model calls, the audio codec and os.remove succeed or raise    *)
(* as the environment decides.                                             *)
(***************************************************************************)
MaxRuns == 2        \* calls the caller makes
MaxParts == 2       \* segments split_audio_by_size exports

MAX_RETRIES == 4
RETRY_BACKOFF == 2

\* OMYA_SENTENCES_PER_CHUNK of the modelled deployment (the default is 12).
SENTENCES_PER_CHUNK == 2
\* OMYA_TOKENS_PER_CHUNK (its default).
TARGET_TOKENS_PER_CHUNK == 900
\* chunks[:3], summaries[:3]
PreviewLen == 3

\* Paths are <<name, suffix, index>>: audio_path (already POSIX) and
\* f"{file_path}_part{i}.mp3".
Orig == <<"audio", "", 0>>
Part(p, i) == <<p[1], "_part", i>>

\* What the transcription model may answer for one segment.
SegmentTexts ==
    { <<>>,
      <<"a", ".">>,
      <<"b", ".", " ", "c", ".">> }

\* What the caller may pass as raw_text.
RawTexts ==
    { <<>>,
      <<" ", "a", ".", "\n">>,
      <<"a", ".", " ", "b", ".", " ", "c", ".">> }

\* The value a failed call leaves where a result was expected.
NoneValue == <<"None">>

\* Stage items: <<stage, index>>.
NoItem == <<"none", 0>>
Item(stage, i) == <<stage, i>>

\* Exceptions, told apart by what raised them.
NoExc == [kind |-> "none", item |-> NoItem, attempt |-> 0]
Exc(kind, item, n) == [kind |-> kind, item |-> item, attempt |-> n]

RECURSIVE Pow(_, _)
Pow(b, e) == IF e = 0 THEN 1 ELSE b * Pow(b, e - 1)

\* sleep_s = RETRY_BACKOFF ** attempt
SleepLinear(n) == RETRY_BACKOFF * n
SleepSeconds(n) == Pow(RETRY_BACKOFF, n)

\* One pass of the loop body of _retry: fn returned ("return"), or raised
\* on the last attempt ("raise"), or raised before it ("sleep").
RetryOutcomeSwallowsLast(n, ok) ==
    IF ok \/ n = MAX_RETRIES THEN "return" ELSE "sleep"
RetryOutcome(n, ok) ==
    IF ok THEN "return"
    ELSE IF n = MAX_RETRIES THEN "raise"
    ELSE "sleep"

\* "if attempt == MAX_RETRIES: raise": the bare raise re-raises the exception
\* being handled, the one of attempt n.
FirstAttemptRaised(n) == 1
LastAttemptRaised(n) == n

\* summaries = [summarize_chunk(c) for c in chunks]: the next element.
SummaryPrepended(done, s) == <<s>> \o done
SummaryAppended(done, s) == Append(done, s)

\* for p in parts: tr = transcribe_audio(p); transcript_all.append(tr)
TranscriptPrepended(done, t) == <<t>> \o done
TranscriptAppended(done, t) == Append(done, t)

\* The order of the statements in the try block (and in pipeline_from_text).
StageAfterQuizFirst(st) ==
    CASE st = "reduce" -> "qcm"
      [] st = "qcm" -> "course"
      [] st = "course" -> "exos"
      [] OTHER -> "return"
StageAfter(st) ==
    CASE st = "reduce" -> "course"
      [] st = "course" -> "qcm"
      [] st = "qcm" -> "exos"
      [] OTHER -> "return"

\* try: ... finally: cleanup_audio_files(...) runs however the try block ends.
CleanupOnSuccessOnly(exc) == exc = NoExc
RunsCleanup(exc) == TRUE

\* Leaving the finally block: "except Exception: pass" covers the cleanup
\* only, the exception of the try block goes on as it is.
FinallyWraps(exc) ==
    IF exc = NoExc THEN NoExc ELSE Exc("PipelineError", exc.item, exc.attempt)
FinallyPropagates(exc) == exc

\* if DELETE_ORIGINAL_AUDIO: _safe_rm(original_path)
DeletesOriginalAlways(flag) == TRUE
DeletesOriginal(flag) == flag

\* glob.glob(f"{original_path}_part*.mp3"), in index order.
RECURSIVE GlobFrom(_, _, _)
GlobFrom(p, disk, i) ==
    IF \A j \in i..MaxParts : Part(p, j) \notin disk THEN <<>>
    ELSE (IF Part(p, i) \in disk THEN <<Part(p, i)>> ELSE <<>>)
         \o GlobFrom(p, disk, i + 1)

GlobParts(p, disk) == GlobFrom(p, disk, 0)

Take(seq, n) == SubSeq(seq, 1, IF Len(seq) < n THEN Len(seq) ELSE n)

\* The stage item a position of the run works on.
CurItem ==
    CASE pc = "transcribe" -> Item("transcribe", Len(transcriptAll) + 1)
      [] pc = "map" -> Item("summarize", Len(summaries) + 1)
      [] pc = "reduce" -> Item("reduce", 0)
      [] pc = "course" -> Item("course", 0)
      [] pc = "qcm" -> Item("quiz", 0)
      [] pc = "exos" -> Item("exercises", 0)
      [] OTHER -> NoItem

RetryStages == {"transcribe", "map", "reduce", "course", "qcm", "exos"}

\* if not Path(audio_path).exists(): raise ...  (the check at the entry of
\* pipeline_from_audio, before the try block)
EntryCheckSkipped(disk) == TRUE
EntryCheckPasses(disk) == Orig \in disk

\* The locals of a call before it starts.
FreshLocals ==
    /\ rawText = <<>> /\ nPlan = 0 /\ outPaths = <<>> /\ parts = <<>>
    /\ transcriptAll = <<>> /\ transcript = <<>> /\ chunks = <<>>
    /\ summaries = <<>> /\ outline = NoneValue /\ course = NoneValue
    /\ qcm = NoneValue /\ exos = NoneValue
    /\ attempt = 1 /\ pending = NoExc /\ rmQueue = <<>>
    /\ outcome = "running" /\ result = NoneValue /\ raisedExc = NoExc
    /\ created = {} /\ rmFailed = {} /\ finished = <<>> /\ lastCall = NoItem
    /\ calls = 0 /\ fails = 0 /\ sleeps = <<>> /\ retryRaised = FALSE
    /\ exhausted = NoItem /\ reduceInput = NoneValue /\ stageExc = NoExc
    /\ cleanupRan = FALSE /\ heard = <<>>

PlInit ==
    /\ cfgDelete \in BOOLEAN
    /\ fs \in {{Orig}, {}}
    /\ run = 1
    /\ prevFailed = FALSE
    /\ mode = "none"
    /\ pc = "idle"
    /\ fsAtStart = fs
    /\ FreshLocals

(***************************************************************************)
(* Leaving the body of a call with exception exc (NoExc: by return).       *)
(* pipeline_from_audio goes through its finally block, pipeline_from_text  *)
(* has none.                                                               *)
(***************************************************************************)
ExitWith(exc) ==
    /\ pc' = "done"
    /\ rmQueue' = <<>>
    /\ outcome' = IF exc = NoExc THEN "returned" ELSE "raised"
    /\ raisedExc' = exc

Leave(exc) ==
    /\ stageExc' = exc
    /\ IF mode = "audio"
       THEN /\ pending' = exc
            /\ IF RunsCleanup(exc)
               THEN /\ pc' = "cleanup_parts"
                    /\ rmQueue' = parts          \* if part_paths: for p in ...
                    /\ UNCHANGED <<outcome, raisedExc>>
               ELSE ExitWith(FinallyPropagates(exc))
       ELSE /\ pending' = NoExc
            /\ ExitWith(exc)

Stay(newpc) ==
    /\ pc' = newpc
    /\ UNCHANGED <<pending, rmQueue, outcome, raisedExc, stageExc>>

\* The bookkeeping of one call of fn inside _retry.
CallCounted(ok) ==
    /\ calls' = (IF attempt = 1 THEN 0 ELSE calls) + 1
    /\ fails' = (IF attempt = 1 THEN 0 ELSE fails) + (IF ok THEN 0 ELSE 1)
    /\ lastCall' = CurItem
    /\ reduceInput' = IF pc = "reduce" THEN summaries ELSE reduceInput

SleepsSoFar == IF attempt = 1 THEN <<>> ELSE sleeps

\* fn returned: _retry returns its result.
RetryReturns ==
    /\ RetryOutcome(attempt, TRUE) = "return"
    /\ CallCounted(TRUE)
    /\ attempt' = 1
    /\ sleeps' = SleepsSoFar
    /\ retryRaised' = FALSE
    /\ UNCHANGED exhausted

(***************************************************************************)
(* pipeline_from_audio: entry and split_audio_by_size                      *)
(***************************************************************************)
StartAudio ==
    /\ pc = "idle"
    /\ EntryCheckPasses(fs)
    /\ mode' = "audio"
    /\ Stay("split")
    /\ UNCHANGED <<cfgDelete, run, prevFailed, fileVars, splitVars, textVars, genVars,
                   retryVars, finished, lastCall, reduceInput, result,
                   cleanupRan, histVars, plOff>>

\* if not Path(audio_path).exists(): raise FileNotFoundError(audio_path)
StartAudioMissing ==
    /\ pc = "idle"
    /\ ~EntryCheckPasses(fs)
    /\ mode' = "audio"
    /\ ExitWith(Exc("FileNotFoundError", NoItem, 0))
    /\ UNCHANGED <<cfgDelete, run, prevFailed, fileVars, splitVars, textVars, genVars,
                   retryVars, finished, lastCall, reduceInput, result,
                   cleanupRan, pending, stageExc, histVars, plOff>>

\* The audio is loaded and cut into n spans (one when the file is small).
SplitLoad(n) ==
    /\ pc = "split"
    /\ Orig \in fs
    /\ nPlan' = n
    /\ lastCall' = Item("segment", 0)
    /\ Stay("export")
    /\ UNCHANGED <<callerVars, fileVars, outPaths, parts, textVars, genVars,
                   retryVars, finished, reduceInput, result, cleanupRan, histVars, plOff>>

\* split_audio_by_size raises before any export: its own
\* "if not Path(file_path).exists(): raise FileNotFoundError(file_path)", or
\* AudioSegment.from_file on a file it cannot decode.
SplitLoadFail ==
    /\ pc = "split"
    /\ lastCall' = Item("segment", 0)
    /\ Leave(Exc(IF Orig \in fs THEN "CouldntDecodeError" ELSE "FileNotFoundError",
                 Item("segment", 0), 0))
    /\ UNCHANGED <<callerVars, fileVars, splitVars, textVars, genVars,
                   retryVars, finished, reduceInput, result, cleanupRan, histVars, plOff>>

\* ch.export(out, format="mp3"); out_paths.append(out); after the last one
\* split_audio_by_size returns and parts is assigned.
Export ==
    /\ pc = "export"
    /\ LET out == Part(Orig, Len(outPaths))
           paths == Append(outPaths, out)
       IN /\ fs' = fs \cup {out}
          /\ created' = created \cup {out}
          /\ outPaths' = paths
          /\ IF Len(paths) = nPlan
             THEN /\ parts' = paths
                  /\ finished' = Append(finished, Item("segment", 0))
                  /\ Stay("transcribe")
             ELSE /\ UNCHANGED <<parts, finished>>
                  /\ Stay("export")
    /\ UNCHANGED <<callerVars, rmFailed, nPlan, textVars, genVars, retryVars,
                   lastCall, reduceInput, result, cleanupRan, histVars, plOff>>

\* ch.export raises; the file it had opened for writing may be left behind.
ExportFail(leaves) ==
    /\ pc = "export"
    /\ LET out == Part(Orig, Len(outPaths))
       IN /\ fs' = IF leaves THEN fs \cup {out} ELSE fs
          /\ created' = IF leaves THEN created \cup {out} ELSE created
    /\ Leave(Exc("CouldntEncodeError", Item("segment", 0), 0))
    /\ UNCHANGED <<callerVars, rmFailed, splitVars, textVars, genVars, retryVars,
                   finished, lastCall, reduceInput, result, cleanupRan, histVars, plOff>>

\* pipeline_from_text(raw_text)
StartText(raw) ==
    /\ pc = "idle"
    /\ mode' = "text"
    /\ rawText' = raw
    /\ Stay("chunk")
    /\ UNCHANGED <<cfgDelete, run, prevFailed, fileVars, splitVars, transcriptAll, transcript,
                   chunks, genVars, retryVars, finished, lastCall, reduceInput,
                   result, cleanupRan, histVars, plOff>>

(***************************************************************************)
(* The stages.  Every model call goes through _retry.                      *)
(***************************************************************************)
Summary(c) == <<"summary", c>>

\* tr = transcribe_audio(p); transcript_all.append(tr)
TranscribeOK(t) ==
    /\ pc = "transcribe"
    /\ RetryReturns
    /\ transcriptAll' = TranscriptAppended(transcriptAll, t)
    /\ heard' = Append(heard, <<parts[Len(transcriptAll) + 1], t>>)
    /\ finished' = Append(finished, CurItem)
    /\ Stay(IF Len(transcriptAll) + 1 = Len(parts) THEN "chunk" ELSE "transcribe")
    /\ UNCHANGED <<callerVars, fileVars, splitVars, rawText, transcript, chunks,
                   genVars, result, cleanupRan, fsAtStart, plOff>>

\* transcript = "\n".join(transcript_all).strip()  (raw_text.strip() in text
\* mode); chunks = chunk_text(transcript).  str.join raises TypeError on an
\* item that is not a string.
Chunk ==
    /\ pc = "chunk"
    /\ lastCall' = Item("chunk", 0)
    /\ IF mode = "audio" /\ \E i \in 1..Len(transcriptAll) : transcriptAll[i] = NoneValue
       THEN /\ Leave(Exc("TypeError", Item("chunk", 0), 0))
            /\ UNCHANGED <<transcript, chunks, finished>>
       ELSE LET tr == IF mode = "audio"
                      THEN Strip(Join(transcriptAll, <<"\n">>))
                      ELSE Strip(rawText)
                cs == chunk_text(tr, SENTENCES_PER_CHUNK, TARGET_TOKENS_PER_CHUNK)
            IN /\ transcript' = tr
               /\ chunks' = cs
               /\ finished' = Append(finished, Item("chunk", 0))
               /\ Stay(IF cs = <<>> THEN "reduce" ELSE "map")
    /\ UNCHANGED <<callerVars, fileVars, splitVars, rawText, transcriptAll, genVars,
                   retryVars, reduceInput, result, cleanupRan, histVars, plOff>>

\* summaries = [summarize_chunk(c, language=language) for c in chunks]
SummarizeOK ==
    /\ pc = "map"
    /\ RetryReturns
    /\ summaries' = SummaryAppended(summaries, Summary(chunks[Len(summaries) + 1]))
    /\ finished' = Append(finished, CurItem)
    /\ Stay(IF Len(summaries) + 1 = Len(chunks) THEN "reduce" ELSE "map")
    /\ UNCHANGED <<callerVars, fileVars, splitVars, textVars, outline, course, qcm,
                   exos, result, cleanupRan, histVars, plOff>>

\* outline = reduce_summaries(summaries, language=language)
ReduceOK ==
    /\ pc = "reduce"
    /\ RetryReturns
    /\ outline' = <<"outline", summaries>>
    /\ finished' = Append(finished, CurItem)
    /\ Stay(StageAfter("reduce"))
    /\ UNCHANGED <<callerVars, fileVars, splitVars, textVars, summaries, course, qcm,
                   exos, result, cleanupRan, histVars, plOff>>

\* course = generate_course_from_outline(outline, title_hint, language=language)
CourseOK ==
    /\ pc = "course"
    /\ RetryReturns
    /\ course' = <<"course", outline>>
    /\ finished' = Append(finished, CurItem)
    /\ Stay(StageAfter("course"))
    /\ UNCHANGED <<callerVars, fileVars, splitVars, textVars, summaries, outline, qcm,
                   exos, result, cleanupRan, histVars, plOff>>

\* qcm = generate_qcm(course, language=language)
QcmOK ==
    /\ pc = "qcm"
    /\ RetryReturns
    /\ qcm' = <<"qcm", course>>
    /\ finished' = Append(finished, CurItem)
    /\ Stay(StageAfter("qcm"))
    /\ UNCHANGED <<callerVars, fileVars, splitVars, textVars, summaries, outline,
                   course, exos, result, cleanupRan, histVars, plOff>>

\* exos = generate_exercises(course, language=language)
ExosOK ==
    /\ pc = "exos"
    /\ RetryReturns
    /\ exos' = <<"exercises", course>>
    /\ finished' = Append(finished, CurItem)
    /\ Stay(StageAfter("exos"))
    /\ UNCHANGED <<callerVars, fileVars, splitVars, textVars, summaries, outline,
                   course, qcm, result, cleanupRan, histVars, plOff>>

\* return PipelineOutputs(...)
Return ==
    /\ pc = "return"
    /\ result' = [transcript |-> transcript,
                  chunks_preview |-> Take(chunks, PreviewLen),
                  summaries_preview |-> Take(summaries, PreviewLen),
                  course |-> course, qcm |-> qcm, exercises |-> exos]
    /\ Leave(NoExc)
    /\ UNCHANGED <<callerVars, fileVars, splitVars, textVars, genVars, retryVars,
                   finished, lastCall, reduceInput, cleanupRan, histVars, plOff>>

\* fn raised inside _retry.  "sleep": time.sleep(RETRY_BACKOFF ** attempt) and
\* the next attempt; "raise": the exception of this attempt leaves _retry and
\* the stage.  Were _retry to return instead, its caller would hold None:
\* transcribe_audio hands it on, the other stages raise AttributeError on
\* resp.choices.
AttemptFail ==
    /\ pc \in RetryStages
    /\ CallCounted(FALSE)
    /\ exhausted' = IF attempt = MAX_RETRIES THEN CurItem ELSE exhausted
    /\ LET o == RetryOutcome(attempt, FALSE)
       IN CASE o = "sleep" ->
                 /\ sleeps' = Append(SleepsSoFar, SleepSeconds(attempt))
                 /\ attempt' = attempt + 1
                 /\ retryRaised' = FALSE
                 /\ Stay(pc)
                 /\ UNCHANGED transcriptAll
            [] o = "raise" ->
                 /\ sleeps' = SleepsSoFar
                 /\ attempt' = attempt
                 /\ retryRaised' = TRUE
                 /\ Leave(Exc("ProviderError", CurItem, LastAttemptRaised(attempt)))
                 /\ UNCHANGED transcriptAll
            [] OTHER ->
                 /\ sleeps' = SleepsSoFar
                 /\ attempt' = 1
                 /\ retryRaised' = FALSE
                 /\ IF pc = "transcribe"
                    THEN /\ transcriptAll' = Append(transcriptAll, NoneValue)
                         /\ Stay(IF Len(transcriptAll) + 1 = Len(parts)
                                 THEN "chunk" ELSE "transcribe")
                    ELSE /\ Leave(Exc("AttributeError", CurItem, attempt))
                         /\ UNCHANGED transcriptAll
    /\ UNCHANGED <<callerVars, fileVars, splitVars, rawText, transcript, chunks,
                   genVars, finished, result, cleanupRan, histVars, plOff>>

(***************************************************************************)
(* finally: cleanup_audio_files(audio_path, parts), one _safe_rm at a time *)
(***************************************************************************)
CleanupPcs == {"cleanup_parts", "cleanup_sweep", "cleanup_orig"}

\* The disk after os.remove(p) went through (a path that is not there is
\* skipped by the os.path.exists test).
RemovedNothing(disk, p) == disk
AfterRemove(disk, p) == disk \ {p}

\* _safe_rm(p): os.remove(p) if the path exists.
RmOk ==
    /\ pc \in CleanupPcs
    /\ rmQueue # <<>>
    /\ fs' = AfterRemove(fs, Head(rmQueue))
    /\ rmFailed' = rmFailed \ {Head(rmQueue)}
    /\ rmQueue' = Tail(rmQueue)
    /\ UNCHANGED <<callerVars, created, pc, pending, outcome, raisedExc, stageExc,
                   splitVars, textVars, genVars, retryVars, finished, lastCall,
                   reduceInput, result, cleanupRan, histVars, plOff>>

\* _safe_rm(p): os.remove(p) raises, "except Exception: pass".
RmRaise ==
    /\ pc \in CleanupPcs
    /\ rmQueue # <<>>
    /\ Head(rmQueue) \in fs
    /\ rmFailed' = rmFailed \cup {Head(rmQueue)}
    /\ rmQueue' = Tail(rmQueue)
    /\ UNCHANGED <<callerVars, fs, created, pc, pending, outcome, raisedExc, stageExc,
                   splitVars, textVars, genVars, retryVars, finished, lastCall,
                   reduceInput, result, cleanupRan, histVars, plOff>>

\* for p in glob.glob(f"{original_path}_part*.mp3"): _safe_rm(p)
Sweep ==
    /\ pc = "cleanup_parts"
    /\ rmQueue = <<>>
    /\ pc' = "cleanup_sweep"
    /\ rmQueue' = GlobParts(Orig, fs)
    /\ UNCHANGED <<callerVars, fileVars, pending, outcome, raisedExc, stageExc,
                   splitVars, textVars, genVars, retryVars, finished, lastCall,
                   reduceInput, result, cleanupRan, histVars, plOff>>

\* if DELETE_ORIGINAL_AUDIO: _safe_rm(original_path)
SweepDone ==
    /\ pc = "cleanup_sweep"
    /\ rmQueue = <<>>
    /\ pc' = "cleanup_orig"
    /\ rmQueue' = IF DeletesOriginal(cfgDelete) THEN <<Orig>> ELSE <<>>
    /\ UNCHANGED <<callerVars, fileVars, pending, outcome, raisedExc, stageExc,
                   splitVars, textVars, genVars, retryVars, finished, lastCall,
                   reduceInput, result, cleanupRan, histVars, plOff>>

\* The finally block is left: return, or the exception goes on to the caller.
Exit ==
    /\ pc = "cleanup_orig"
    /\ rmQueue = <<>>
    /\ cleanupRan' = TRUE
    /\ ExitWith(FinallyPropagates(pending))
    /\ UNCHANGED <<callerVars, fileVars, pending, stageExc, splitVars, textVars,
                   genVars, retryVars, finished, lastCall, reduceInput, result,
                   histVars, plOff>>

\* The caller makes its next call; the disk stays as the last call left it.
Restart ==
    /\ pc = "done"
    /\ run < MaxRuns
    /\ run' = run + 1
    /\ prevFailed' = (mode = "audio" /\ stageExc # NoExc)
    /\ mode' = "none"
    /\ pc' = "idle"
    /\ rawText' = <<>> /\ nPlan' = 0 /\ outPaths' = <<>> /\ parts' = <<>>
    /\ transcriptAll' = <<>> /\ transcript' = <<>> /\ chunks' = <<>>
    /\ summaries' = <<>> /\ outline' = NoneValue /\ course' = NoneValue
    /\ qcm' = NoneValue /\ exos' = NoneValue
    /\ attempt' = 1 /\ pending' = NoExc /\ rmQueue' = <<>>
    /\ outcome' = "running" /\ result' = NoneValue /\ raisedExc' = NoExc
    /\ created' = {} /\ rmFailed' = {} /\ finished' = <<>> /\ lastCall' = NoItem
    /\ calls' = 0 /\ fails' = 0 /\ sleeps' = <<>> /\ retryRaised' = FALSE
    /\ exhausted' = NoItem /\ reduceInput' = NoneValue /\ stageExc' = NoExc
    /\ cleanupRan' = FALSE /\ heard' = <<>>
    /\ fsAtStart' = fs
    /\ UNCHANGED <<cfgDelete, fs, plOff>>

\* No pipeline call is made.
PlIdle ==
    /\ cfgDelete = FALSE /\ fs = {} /\ run = 1 /\ prevFailed = FALSE
    /\ mode = "none" /\ pc = "off" /\ fsAtStart = {}
    /\ FreshLocals

ChunkIdle ==
    /\ ctText = <<>> /\ ctK = 1 /\ ctTarget = 1 /\ ctOut = <<>> /\ ctPc = "off"

\* split_audio_by_size is not being followed step by step.
SplitIdle ==
    /\ spFileSize = 0 /\ spAudioLen = 0 /\ spNumParts = 0 /\ spPartDur = 0
    /\ spStart = 0 /\ spChunks = <<>> /\ spSpans = <<>> /\ spOut = <<>>
    /\ spPc = "off" /\ spPass = 0

\* to_wsl_path is not being applied to enumerated paths.
PathIdle ==
    /\ wpImpl = "logic" /\ wpIn = NoneValue /\ wpOnce = NoneValue
    /\ wpTwice = NoneValue /\ wpPc = "off"

\* The web layer: requests and task runs, by name.
Reqs == {"r1", "r2"}
Invs == {"t1", "t2"}
Kinds == {"audio", "text"}

\* "" in a text field of a row.
EmptyText == <<>>

\* No exception.
NoExcW == [type |-> "none", msg |-> EmptyText]

NoUser == [audio |-> 0, text |-> 0, due |-> FALSE]

NoRow ==
    [state |-> "PENDING", processing |-> FALSE, error |-> EmptyText,
     transcript_text |-> EmptyText, course_markdown |-> EmptyText,
     qcm_markdown |-> EmptyText, exercises_markdown |-> EmptyText,
     source_type |-> "none"]

\* A request before it is made, a task run before its message arrives.
NewReq(p) ==
    [pc |-> p, user |-> NoUser, kind |-> "none", cost |-> 0, debited |-> 0,
     refunded |-> 0, dispatch |-> "none", cid |-> 0, verdict |-> "none",
     changed |-> FALSE]

NewInv(p) ==
    [pc |-> p, cid |-> 0, obj |-> NoRow, started |-> FALSE, exc |-> NoExcW,
     end |-> NoRow, kept |-> TRUE]

\* No request is made and no task runs.
WebIdle ==
    /\ wBal = [k \in Kinds |-> 0] /\ wDue = FALSE
    /\ wBase = [k \in Kinds |-> 0]
    /\ wReq = [r \in Reqs |-> NewReq("off")]
    /\ wCourses = <<>>
    /\ wBroker = [queued |-> {}, delivered |-> {}]
    /\ wInv = [i \in Invs |-> NewInv("off")]

\* The two calls of SpecTwo and the locals of a call that has not started.
Runs == {1, 2}
NoPath == <<"", <<>>>>
NewRun(p, at) ==
    [src |-> p, pc |-> at, plan |-> 0, out |-> <<>>, parts |-> <<>>,
     made |-> {}, exc |-> "none"]

\* No two calls are being followed.
TwoIdle ==
    /\ twDelete = FALSE /\ twFs = {} /\ twHarm = {}
    /\ twRun = [r \in Runs |-> NewRun(NoPath, "off")]

Init == PlInit /\ ChunkIdle /\ SplitIdle /\ PathIdle /\ WebIdle /\ TwoIdle

Next ==
    \/ StartAudio
    \/ StartAudioMissing
    \/ \E n \in 1..MaxParts : SplitLoad(n)
    \/ SplitLoadFail
    \/ Export
    \/ \E leaves \in BOOLEAN : ExportFail(leaves)
    \/ \E raw \in RawTexts : StartText(raw)
    \/ \E t \in SegmentTexts : TranscribeOK(t)
    \/ Chunk
    \/ SummarizeOK
    \/ ReduceOK
    \/ CourseOK
    \/ QcmOK
    \/ ExosOK
    \/ Return
    \/ AttemptFail
    \/ RmOk
    \/ RmRaise
    \/ Sweep
    \/ SweepDone
    \/ Exit
    \/ Restart

Spec == Init /\ [][Next]_vars

(***************************************************************************)
(* Properties of the pipelines, checked under Spec.                        *)
(***************************************************************************)
SegmentationReturned == finished # <<>> /\ finished[1] = Item("segment", 0)

AudioCallOver == mode = "audio" /\ outcome \in {"returned", "raised"}

\* A stage of pipeline_from_audio raised and the call is over.
AudioStageFailed == mode = "audio" /\ pc = "done" /\ stageExc # NoExc

\* C1 as stated: once segmentation has returned its list, no segment file
\* created by the run exists when pipeline_from_audio returns or raises,
\* wherever the run failed.
C1_NoSegmentLeft ==
    (AudioCallOver /\ SegmentationReturned) => created \cap fs = {}

\* C1, amended: once segmentation has returned its list, every segment file
\* created by the run has been handed to os.remove when pipeline_from_audio
\* returns or raises, and none exists any more except those whose os.remove
\* raised (which _safe_rm swallows).
C1_NoSegmentLeftUnlessRemoveRaised ==
    (AudioCallOver /\ SegmentationReturned) =>
        \A p \in created : p \notin fs \/ p \in rmFailed

\* A run that failed in the map stage, after two segments were written, and
\* left neither behind.
C1_Witness ==
    /\ AudioCallOver /\ SegmentationReturned
    /\ outcome = "raised"
    /\ exhausted[1] = "summarize"
    /\ Cardinality(created) = 2
    /\ created \cap fs = {}

\* C2: when fn fails on every attempt, _retry calls it exactly MAX_RETRIES
\* (4) times and then raises; it sleeps 2, 4, 8 seconds after the failed
\* attempts 1, 2, 3 and does not sleep after the last one.
C2_RetryExhaustion ==
    /\ MAX_RETRIES = 4
    /\ calls <= MAX_RETRIES
    /\ fails = calls => sleeps = Take(<<2, 4, 8>>, fails)
    /\ retryRaised <=> (fails = MAX_RETRIES)
    /\ retryRaised => calls = MAX_RETRIES /\ sleeps = <<2, 4, 8>>

C2_Witness == retryRaised /\ calls = 4 /\ fails = 4

\* C3: in both pipelines reduce_summaries receives exactly one summary per
\* chunk, the i-th being the summary of the i-th chunk of the chunker.
C3_ReduceOrder ==
    reduceInput # NoneValue =>
        /\ Len(reduceInput) = Len(chunks)
        /\ \A i \in 1..Len(chunks) : reduceInput[i] = Summary(chunks[i])

C3_Witness ==
    /\ reduceInput # NoneValue
    /\ Len(chunks) >= 2
    /\ chunks[1] # chunks[2]

\* C4: when the transcription of a segment or the summary of a chunk fails
\* on its last attempt, the run aborts: nothing is invoked after it and no
\* PipelineOutputs is returned; a run that returns has one transcript per
\* segment and one summary per chunk.
C4_FailFast ==
    /\ exhausted[1] \in {"transcribe", "summarize"} =>
           /\ lastCall = exhausted
           /\ pc \in CleanupPcs \cup {"done"}
           /\ outcome # "returned"
           /\ result = NoneValue
    /\ outcome = "returned" =>
           /\ mode = "audio" =>
                  /\ Len(transcriptAll) = Len(parts)
                  /\ \A i \in 1..Len(transcriptAll) : transcriptAll[i] \in SegmentTexts
           /\ Len(summaries) = Len(chunks)
           /\ reduceInput = summaries

\* The first of two segments could not be transcribed.
C4_Witness ==
    /\ exhausted = Item("transcribe", 1)
    /\ Len(parts) = 2
    /\ outcome = "raised"

\* The stage items in the order the specification gives them.
RECURSIVE Items(_, _, _)
Items(stage, i, n) ==
    IF i > n THEN <<>> ELSE <<Item(stage, i)>> \o Items(stage, i + 1, n)

StageOrder(m, nSeg, nChunk) ==
    (IF m = "audio"
     THEN <<Item("segment", 0)>> \o Items("transcribe", 1, nSeg)
     ELSE <<>>)
    \o <<Item("chunk", 0)>>
    \o Items("summarize", 1, nChunk)
    \o <<Item("reduce", 0), Item("course", 0), Item("quiz", 0), Item("exercises", 0)>>

\* C8: work happens in strict stage order (segment, every transcription,
\* chunk, every map summary, reduce, course, quiz, exercises): the stage
\* items completed are a prefix of that order and the item at work is the
\* last completed one or the one right after it.
C8_StageOrder ==
    LET order == StageOrder(mode, Len(parts), Len(chunks))
    IN /\ Len(finished) <= Len(order)
       /\ \A i \in 1..Len(finished) : finished[i] = order[i]
       /\ lastCall # NoItem =>
              \E k \in 1..Len(order) :
                  /\ order[k] = lastCall
                  /\ k \in {Len(finished), Len(finished) + 1}

C8_Witness ==
    /\ mode = "audio"
    /\ outcome = "returned"
    /\ Len(parts) = 2
    /\ Len(chunks) = 2
    /\ finished = StageOrder("audio", 2, 2)

\* C9: when a stage of pipeline_from_audio raises, the caller gets that very
\* exception, also when an os.remove of the cleanup raised, and the cleanup
\* has run by then.
C9_OriginalException ==
    AudioStageFailed =>
        /\ outcome = "raised"
        /\ raisedExc = stageExc
        /\ cleanupRan

C9_Witness ==
    /\ AudioStageFailed
    /\ raisedExc.kind = "ProviderError"
    /\ rmFailed # {}

\* C10 as stated: after a run of pipeline_from_audio failed at a stage, the
\* source is still there and a second run on the same path starts.
C10_RetryCanStart ==
    /\ AudioStageFailed => Orig \in fs
    /\ (prevFailed /\ mode = "audio") => raisedExc.kind # "FileNotFoundError"

\* C10, amended: after a run of pipeline_from_audio failed at a stage, the
\* source is still there, and a second run on the same path starts, exactly
\* when DELETE_ORIGINAL_AUDIO is off or the os.remove of the source raised;
\* with the flag on (the default) the failed run has deleted the source.
C10_RetryCanStartIfSourceKept ==
    /\ AudioStageFailed => (Orig \in fs <=> (~cfgDelete \/ Orig \in rmFailed))
    /\ (prevFailed /\ mode = "audio" /\ ~cfgDelete) =>
           raisedExc.kind # "FileNotFoundError"

\* The second run on the same path is under way after the first one failed.
C10_Witness ==
    /\ prevFailed
    /\ ~cfgDelete
    /\ mode = "audio"
    /\ pc = "transcribe"

\* The last call made through _retry returned: its stage item is the last
\* one completed.
RetrySucceeded ==
    /\ lastCall[1] \in {"transcribe", "summarize", "reduce", "course", "quiz",
                       "exercises"}
    /\ finished # <<>>
    /\ finished[Len(finished)] = lastCall

\* C24: when fn first succeeds on attempt k (1 <= k <= MAX_RETRIES), _retry
\* returns at that attempt: fn has been called k times (k - 1 failures, then
\* the success), k - 1 backoff sleeps have happened, and a stage item that
\* is completed is not called again; when _retry raises, the exception is
\* the one of the last attempt.
C24_RetryReturnsAtFirstSuccess ==
    /\ RetrySucceeded =>
           /\ calls \in 1..MAX_RETRIES
           /\ fails = calls - 1
           /\ Len(sleeps) = calls - 1
           /\ attempt = 1 /\ ~retryRaised
    /\ \A i \in 1..Len(finished) :
           finished[i] = lastCall => i = Len(finished)
    /\ retryRaised =>
           /\ calls = MAX_RETRIES
           /\ stageExc = Exc("ProviderError", lastCall, calls)

\* A summary that came at the third attempt, after two sleeps.
C24_Witness ==
    /\ RetrySucceeded
    /\ lastCall[1] = "summarize"
    /\ calls = 3 /\ fails = 2 /\ sleeps = <<2, 4>>

\* pipeline_from_audio is over and its path passed the existence check.
AudioExitAfterCheck == mode = "audio" /\ pc = "done" /\ Orig \in fsAtStart

\* C21 as stated: on every exit of pipeline_from_audio after the existence
\* check, by return or by exception, the source file is gone when
\* DELETE_ORIGINAL_AUDIO is on, and is in place, unwritten, when it is off.
C21_OriginalDeletedIffFlag ==
    /\ AudioExitAfterCheck =>
           IF cfgDelete THEN Orig \notin fs
           ELSE Orig \in fs /\ Orig \notin created
    /\ (mode = "audio" /\ Orig \in fsAtStart /\ ~cfgDelete) => Orig \in fs

\* C21, amended: on every exit of pipeline_from_audio after the existence
\* check, by return or by exception, the source file has been handed to
\* os.remove when DELETE_ORIGINAL_AUDIO is on and is gone unless that
\* os.remove raised (which _safe_rm swallows); when the flag is off the
\* source is in place all along, never written and never handed to os.remove.
C21_OriginalDeletedUnlessRemoveRaised ==
    /\ AudioExitAfterCheck =>
           IF cfgDelete THEN Orig \notin fs \/ Orig \in rmFailed
           ELSE Orig \in fs /\ Orig \notin created /\ Orig \notin rmFailed
    /\ (mode = "audio" /\ Orig \in fsAtStart /\ ~cfgDelete) => Orig \in fs

\* A run that returned its outputs with the flag on: the source is gone.
C21_Witness ==
    /\ AudioExitAfterCheck
    /\ cfgDelete
    /\ outcome = "returned"
    /\ Orig \notin fs

\* The text the run works on is empty after trimming: raw_text.strip() in
\* pipeline_from_text, the joined transcript in pipeline_from_audio.
EmptyInput ==
    \/ mode = "text" /\ Strip(rawText) = <<>>
    \/ /\ mode = "audio"
       /\ \E i \in 1..Len(finished) : finished[i] = Item("chunk", 0)
       /\ transcript = <<>>

ModelCallStages == {"summarize", "reduce", "course", "quiz", "exercises"}

\* C11: a run whose text is empty after trimming (raw_text of
\* pipeline_from_text, the joined transcript of pipeline_from_audio) makes no
\* summarize, reduce, course, quiz or exercise call and does not return
\* outputs: it fails before any of them.
C11_EmptyInputRejected ==
    EmptyInput => /\ lastCall[1] \notin ModelCallStages
                  /\ outcome # "returned"

\* pipeline_from_audio was called with a path that does not exist.
AudioPathMissing == mode = "audio" /\ Orig \notin fsAtStart

\* C12: pipeline_from_audio called with a path that does not exist raises
\* FileNotFoundError at once: no _retry attempt, no model call, no segment
\* written, no cleanup, and the disk is as it was when the call was made.
C12_MissingSourceRaisesAtOnce ==
    AudioPathMissing =>
        /\ pc = "done" /\ outcome = "raised"
        /\ raisedExc = Exc("FileNotFoundError", NoItem, 0)
        /\ calls = 0 /\ attempt = 1 /\ sleeps = <<>>
        /\ lastCall = NoItem /\ finished = <<>>
        /\ created = {} /\ outPaths = <<>>
        /\ fs = fsAtStart
        /\ ~cleanupRan /\ stageExc = NoExc

\* A second call on a path the first call deleted, while a segment file of
\* the first call is still on disk.
C12_Witness ==
    /\ AudioPathMissing
    /\ outcome = "raised"
    /\ Part(Orig, 0) \in fs

\* The segments are transcribed one at a time in the order of parts, one
\* transcription per segment, and transcript_all holds the texts in that
\* order.
TranscribedInOrder ==
    /\ Len(heard) <= Len(parts)
    /\ \A i \in 1..Len(heard) : heard[i][1] = parts[i]
    /\ (mode = "audio" /\ outcome = "returned") =>
           /\ Len(heard) = Len(parts)
           /\ transcriptAll = [i \in 1..Len(heard) |-> heard[i][2]]

\* C17 as stated: the segments are transcribed one at a time in the order
\* the segmenter returned them, and the transcript pipeline_from_audio
\* returns is the per-segment transcripts joined with a newline in that order.
C17_TranscriptIsJoin ==
    /\ TranscribedInOrder
    /\ (mode = "audio" /\ outcome = "returned") =>
           result.transcript = Join(transcriptAll, <<"\n">>)

\* C17, amended: the segments are transcribed one at a time in the order the
\* segmenter returned them, and the transcript pipeline_from_audio returns is
\* the per-segment transcripts joined with a newline in that order, with the
\* leading and trailing whitespace of the joined text stripped.
C17_TranscriptIsStrippedJoin ==
    /\ TranscribedInOrder
    /\ (mode = "audio" /\ outcome = "returned") =>
           result.transcript = Strip(Join(transcriptAll, <<"\n">>))

\* A run of two segments returned; the first segment was transcribed to the
\* empty text, the second was not.
C17_Witness ==
    /\ mode = "audio" /\ outcome = "returned"
    /\ Len(parts) = 2
    /\ transcriptAll[1] = <<>> /\ transcriptAll[2] # <<>>
    /\ result.transcript # Join(transcriptAll, <<"\n">>)


(***************************************************************************)
(* SpecChunk: chunk_text on every text over a three-letter alphabet.       *)
(***************************************************************************)
MaxTextLen == 8
MaxK == 2
MaxTarget == 2

Alphabet == {"a", ".", " "}

RECURSIVE TextsOfLen(_)
TextsOfLen(n) ==
    IF n = 0 THEN {<<>>}
    ELSE {Append(t, c) : t \in TextsOfLen(n - 1), c \in Alphabet}

Texts == UNION {TextsOfLen(n) : n \in 0..MaxTextLen}

ChunkInit ==
    /\ ctText \in Texts
    /\ ctK \in 1..MaxK
    /\ ctTarget \in 1..MaxTarget
    /\ ctOut = <<>>
    /\ ctPc = "input"
    /\ PlIdle
    /\ SplitIdle
    /\ PathIdle
    /\ WebIdle
    /\ TwoIdle

ChunkCall ==
    /\ ctPc = "input"
    /\ ctOut' = chunk_text(ctText, ctK, ctTarget)
    /\ ctPc' = "done"
    /\ UNCHANGED <<ctText, ctK, ctTarget, ctOff>>

ChunkNext == ChunkCall

SpecChunk == ChunkInit /\ [][ChunkNext]_vars

\* The sentences of the returned chunks, chunk by chunk.
RECURSIVE SentencesOf(_)
SentencesOf(cs) ==
    IF cs = <<>> THEN <<>>
    ELSE sentence_split(Head(cs)) \o SentencesOf(Tail(cs))

\* C5: the sentences of the chunks chunk_text returns, taken chunk by chunk
\* in order, are exactly sentence_split(text): none dropped, duplicated or
\* reordered.
C5_ChunkCoverage ==
    ctPc = "done" => SentencesOf(ctOut) = sentence_split(ctText)

\* chunk_text returned at least two chunks, one of them of several sentences.
C5_Witness ==
    /\ ctPc = "done"
    /\ Len(ctOut) >= 2
    /\ \E i \in 1..Len(ctOut) : Len(sentence_split(ctOut[i])) >= 2

\* C6: for sentences_per_chunk >= 1, every returned chunk holds at most
\* sentences_per_chunk sentences.
C6_ChunkSentenceBound ==
    ctPc = "done" =>
        \A i \in 1..Len(ctOut) : Len(sentence_split(ctOut[i])) <= ctK

\* A chunk was closed because the buffer held sentences_per_chunk sentences,
\* with more than one sentence per chunk allowed.
C6_Witness ==
    /\ ctPc = "done"
    /\ ctK = 2
    /\ Len(ctOut) >= 2
    /\ Len(sentence_split(ctOut[1])) = 2
    /\ estimate_tokens(ctOut[1] \o <<" ">> \o ctOut[2]) <= ctTarget

\* C7: a returned chunk of two or more sentences has an estimated token count
\* <= target_tokens; a chunk whose estimate exceeds target_tokens is a single
\* sentence.
C7_ChunkTokenBound ==
    ctPc = "done" =>
        \A i \in 1..Len(ctOut) :
            /\ Len(sentence_split(ctOut[i])) >= 2 =>
                   estimate_tokens(ctOut[i]) <= ctTarget
            /\ estimate_tokens(ctOut[i]) > ctTarget =>
                   Len(sentence_split(ctOut[i])) = 1

\* A chunk was closed, below sentences_per_chunk, because the next sentence
\* would have taken it over the budget.
C7_Witness ==
    /\ ctPc = "done"
    /\ Len(ctOut) >= 2
    /\ ctK >= 2
    /\ Len(sentence_split(ctOut[1])) < ctK
    /\ estimate_tokens(ctOut[1] \o <<" ">> \o ctOut[2]) > ctTarget
    /\ estimate_tokens(ctOut[1]) <= ctTarget

\* Sentences i*k .. min((i+1)*k, n) - 1 (counted from 0) joined by single
\* spaces, for each i below ceil(n / k).
GreedyChunks(sents, k) ==
    LET n == Len(sents)
    IN [i \in 1..((n + k - 1) \div k) |->
           Join(SubSeq(sents, (i - 1) * k + 1, IF i * k < n THEN i * k ELSE n),
                <<" ">>)]

\* No chunk of the greedy filling, hence no candidate met while filling it,
\* is over the token budget.
BudgetNeverExceeded(sents, k, target) ==
    \A i \in 1..Len(GreedyChunks(sents, k)) :
        estimate_tokens(GreedyChunks(sents, k)[i]) <= target

\* C23: when the token budget is never exceeded, chunk_text fills chunks
\* greedily: with n sentences and sentences_per_chunk = k >= 1, chunk i holds
\* sentences i*k .. min((i+1)*k, n) - 1 joined by single spaces, ceil(n / k)
\* chunks in all.
C23_GreedyFill ==
    (ctPc = "done" /\ BudgetNeverExceeded(sentence_split(ctText), ctK, ctTarget)) =>
        /\ ctOut = GreedyChunks(sentence_split(ctText), ctK)
        /\ Len(ctOut) * ctK >= Len(sentence_split(ctText))
        /\ (Len(ctOut) - 1) * ctK < Len(sentence_split(ctText))

\* Three sentences with k = 2: a chunk of two followed by a chunk of one.
C23_Witness ==
    /\ ctPc = "done"
    /\ ctK = 2
    /\ Len(sentence_split(ctText)) = 3
    /\ BudgetNeverExceeded(sentence_split(ctText), ctK, ctTarget)
    /\ Len(ctOut) = 2
    /\ Len(sentence_split(ctOut[1])) = 2
    /\ Len(sentence_split(ctOut[2])) = 1

(***************************************************************************)
(* SpecSplit: split_audio_by_size followed step by step on files of        *)
(* enumerated byte sizes and durations.  A piece of audio is the list of   *)
(* the <<from, to>> stretches (in ms) of the original it is made of.       *)
(***************************************************************************)
MaxSizeQuot == 3    \* file sizes go up to MaxSizeQuot * max_bytes + max_bytes - 1
MaxLenUnits == 5    \* durations go up to MaxLenUnits half thresholds ...
MaxLenRem == 3      \* ... plus MaxLenRem ms
MaxLoop == 12       \* iterations of the while loop that are followed

MAX_AUDIO_MB == 24
BytesPerMb == 1024 * 1024
max_bytes == MAX_AUDIO_MB * BytesPerMb

\* len(chunks[-1]) < 10_000
TINY_TAIL_MS == 10000

FileSizes ==
    {q * max_bytes + r : q \in 0..MaxSizeQuot, r \in {0, 1, max_bytes - 1}} \ {0}

AudioLens ==
    {u * (TINY_TAIL_MS \div 2) + r : u \in 0..MaxLenUnits, r \in 0..MaxLenRem}

Min(a, b) == IF a <= b THEN a ELSE b

\* math.ceil(a / b) for positive b
CeilDiv(a, b) == (a + b - 1) \div b

num_parts(size) == CeilDiv(size, max_bytes)

part_duration_ms(len, n) == len \div n

\* audio[start:end]
Slice(start, end) == IF start < end THEN << <<start, end>> >> ELSE <<>>

\* start = end
NextStartSkipsOne(end) == end + 1
NextStart(end) == end

\* len(chunk)
RECURSIVE Dur(_)
Dur(piece) ==
    IF piece = <<>> THEN 0
    ELSE (Head(piece)[2] - Head(piece)[1]) + Dur(Tail(piece))

\* len(chunks) > 1 and len(chunks[-1]) < 10_000
TailIsTinyInclusive(cs) == Len(cs) > 1 /\ Dur(cs[Len(cs)]) <= TINY_TAIL_MS
TailIsTiny(cs) == Len(cs) > 1 /\ Dur(cs[Len(cs)]) < TINY_TAIL_MS

\* chunks[-2] = chunks[-2] + chunks[-1]; chunks = chunks[:-1]
MergeTail(cs) ==
    [i \in 1..(Len(cs) - 1) |->
        IF i = Len(cs) - 1 THEN cs[i] \o cs[i + 1] ELSE cs[i]]

SplitInit ==
    /\ spFileSize \in FileSizes
    /\ spAudioLen \in AudioLens
    /\ spNumParts = 0 /\ spPartDur = 0 /\ spStart = 0
    /\ spChunks = <<>> /\ spSpans = <<>> /\ spOut = <<>>
    /\ spPc = "call" /\ spPass = 0
    /\ PlIdle
    /\ ChunkIdle
    /\ PathIdle
    /\ WebIdle
    /\ TwoIdle

\* if file_size_bytes <= max_bytes: audio.export(out); return [out]
SplitSmall ==
    /\ spPc = "call"
    /\ spFileSize <= max_bytes
    /\ spOut' = <<Slice(0, spAudioLen)>>
    /\ spPc' = "done"
    /\ UNCHANGED <<spFileSize, spAudioLen, spNumParts, spPartDur, spStart,
                   spChunks, spSpans, spPass, spOff>>

\* num_parts = ...; part_duration_ms = ...; chunks = []; start = 0
SplitPlan ==
    /\ spPc = "call"
    /\ spFileSize > max_bytes
    /\ spNumParts' = num_parts(spFileSize)
    /\ spPartDur' = part_duration_ms(spAudioLen, num_parts(spFileSize))
    /\ spStart' = 0
    /\ spChunks' = <<>>
    /\ spPc' = "loop"
    /\ UNCHANGED <<spFileSize, spAudioLen, spSpans, spOut, spPass, spOff>>

\* One pass of the body of "while start < len(audio)".  The list chunks is
\* followed up to MaxLoop entries; the passes go on beyond them, and the
\* parity of their number tells one pass from the next.
SplitLoopStep ==
    /\ spPc = "loop"
    /\ spStart < spAudioLen
    /\ LET end == Min(spStart + spPartDur, spAudioLen)
       IN /\ spChunks' = IF Len(spChunks) < MaxLoop
                         THEN Append(spChunks, Slice(spStart, end))
                         ELSE spChunks
          /\ spStart' = NextStart(end)
    /\ spPass' = 1 - spPass
    /\ UNCHANGED <<spFileSize, spAudioLen, spNumParts, spPartDur, spSpans,
                   spOut, spPc, spOff>>

\* The while condition is false.
SplitLoopExit ==
    /\ spPc = "loop"
    /\ ~(spStart < spAudioLen)
    /\ spSpans' = spChunks
    /\ spPc' = "merge"
    /\ UNCHANGED <<spFileSize, spAudioLen, spNumParts, spPartDur, spStart,
                   spChunks, spOut, spPass, spOff>>

\* Merge tiny tail if < 10 seconds into previous chunk
SplitMerge ==
    /\ spPc = "merge"
    /\ spChunks' = IF TailIsTiny(spChunks) THEN MergeTail(spChunks) ELSE spChunks
    /\ spPc' = "export"
    /\ UNCHANGED <<spFileSize, spAudioLen, spNumParts, spPartDur, spStart,
                   spSpans, spOut, spPass, spOff>>

\* ch.export(out, format="mp3"); out_paths.append(out)
SplitExport ==
    /\ spPc = "export"
    /\ Len(spOut) < Len(spChunks)
    /\ spOut' = Append(spOut, spChunks[Len(spOut) + 1])
    /\ UNCHANGED <<spFileSize, spAudioLen, spNumParts, spPartDur, spStart,
                   spChunks, spSpans, spPc, spPass, spOff>>

\* return out_paths
SplitReturn ==
    /\ spPc = "export"
    /\ Len(spOut) = Len(spChunks)
    /\ spPc' = "done"
    /\ UNCHANGED <<spFileSize, spAudioLen, spNumParts, spPartDur, spStart,
                   spChunks, spSpans, spOut, spPass, spOff>>

SplitNext ==
    \/ SplitSmall
    \/ SplitPlan
    \/ SplitLoopStep
    \/ SplitLoopExit
    \/ SplitMerge
    \/ SplitExport
    \/ SplitReturn

SpecSplit == SplitInit /\ [][SplitNext]_vars

\* split_audio_by_size is straight-line code run by one thread: as long as
\* it has a next statement that changes its state, it executes it.
SpecSplitFair == SplitInit /\ [][SplitNext]_vars /\ WF_vars(SplitNext)

\* C25: split_audio_by_size terminates for every existing audio file larger
\* than the threshold, also when the duration in ms is smaller than
\* num_parts (part_duration_ms = 0).
C25_SplitTerminates == (spFileSize > max_bytes) ~> (spPc = "done")

\* The while loop of the large-file branch has ended.
SpansComputed == spPc \in {"merge", "export", "done"} /\ spFileSize > max_bytes

\* C13: for a file larger than the threshold, the number of spans computed
\* before the tiny-tail merge is exactly num_parts = ceil(size / max_bytes),
\* whatever the duration.
C13_SpanCountIsNumParts ==
    SpansComputed =>
        /\ spNumParts = CeilDiv(spFileSize, max_bytes)
        /\ Len(spSpans) = spNumParts

\* The stretches of the pieces, piece after piece.
RECURSIVE Stretches(_)
Stretches(pieces) ==
    IF pieces = <<>> THEN <<>> ELSE Head(pieces) \o Stretches(Tail(pieces))

\* The stretches start at 0, each starts where the one before ended, none is
\* empty or reversed, and the last ends at total.
CoversTimeline(st, total) ==
    /\ \A i \in 1..Len(st) : st[i][1] < st[i][2]
    /\ \A i \in 1..(Len(st) - 1) : st[i + 1][1] = st[i][2]
    /\ IF st = <<>> THEN total = 0
       ELSE st[1][1] = 0 /\ st[Len(st)][2] = total

\* C14: the segments split_audio_by_size returns, in list order, are
\* contiguous, do not overlap and cover the whole timeline: the first starts
\* at 0, each starts where the previous ended, the last ends at the total
\* duration; also after the tiny-tail merge.
C14_SegmentsCoverTimeline ==
    spPc = "done" => CoversTimeline(Stretches(spOut), spAudioLen)

\* A file was cut, its tail merged, and three segments returned.
C14_Witness ==
    /\ spPc = "done"
    /\ Len(spOut) = 3
    /\ Len(spSpans) = 4
    /\ Len(spOut[3]) = 2

\* C15: when more than one span was computed and the last is shorter than
\* 10 000 ms, the output has one segment fewer than the spans, its last
\* segment is the span before the last followed by the tail, and the earlier
\* segments are the earlier spans; otherwise the output is the spans as
\* computed.
C15_TinyTailMerge ==
    (SpansComputed /\ spPc = "done") =>
        LET n == Len(spSpans)
        IN IF n > 1 /\ Dur(spSpans[n]) < TINY_TAIL_MS
           THEN /\ Len(spOut) = n - 1
                /\ spOut[n - 1] = spSpans[n - 1] \o spSpans[n]
                /\ \A i \in 1..(n - 2) : spOut[i] = spSpans[i]
           ELSE spOut = spSpans

\* A tail of 1 ms was merged into a span of 10 000 ms.
C15_Witness ==
    /\ SpansComputed /\ spPc = "done"
    /\ Len(spSpans) = 3 /\ Len(spOut) = 2
    /\ Dur(spSpans[3]) = 1
    /\ Dur(spOut[2]) = TINY_TAIL_MS + 1

(***************************************************************************)
(* SpecPath: to_wsl_path, in its two copies (courses/logic.py and          *)
(* courses/utils/path.py), applied once and twice to every path over a     *)
(* small alphabet, and to None.                                            *)
(***************************************************************************)
MaxPathLen == 5

PathAlphabet == {"C", "c", ":", "\\", "/"}

\* [A-Za-z]
Letters == {"C", "c"}

RECURSIVE PathsOfLen(_)
PathsOfLen(n) ==
    IF n = 0 THEN {<<>>}
    ELSE {Append(t, c) : t \in PathsOfLen(n - 1), c \in PathAlphabet}

PathInputs == {NoneValue} \cup UNION {PathsOfLen(n) : n \in 0..MaxPathLen}

\* p.startswith("/")
StartsWithSlash(p) == p # <<>> /\ Head(p) = "/"

\* re.match(r"^[A-Za-z]:\\", p)
MatchesDrive(p) ==
    Len(p) >= 3 /\ p[1] \in Letters /\ p[2] = ":" /\ p[3] = "\\"

\* p[0].lower()
DriveKept(c) == c
DriveLower(c) == IF c = "C" THEN "c" ELSE c

\* p.replace("\\", "/")
ReplaceBackslashes(p) == [i \in 1..Len(p) |-> IF p[i] = "\\" THEN "/" ELSE p[i]]

\* f"/mnt/{drive}/{p2[3:]}"
MntPath(p) ==
    LET p2 == ReplaceBackslashes(p)
    IN <<"/", "m", "n", "t", "/", DriveLower(p[1]), "/">> \o SubSeq(p2, 4, Len(p2))

\* courses/logic.py
to_wsl_path(p) ==
    IF p = NoneValue THEN NoneValue
    ELSE IF StartsWithSlash(p) THEN p
    ELSE IF MatchesDrive(p) THEN MntPath(p)
    ELSE p

\* courses/utils/path.py
utils_to_wsl_path(p) ==
    IF p = NoneValue THEN NoneValue
    ELSE IF MatchesDrive(p) THEN MntPath(p)
    ELSE p

Normalize(impl, p) == IF impl = "logic" THEN to_wsl_path(p) ELSE utils_to_wsl_path(p)

PathInit ==
    /\ wpImpl \in {"logic", "utils"}
    /\ wpIn \in PathInputs
    /\ wpOnce = NoneValue /\ wpTwice = NoneValue
    /\ wpPc = "input"
    /\ PlIdle
    /\ ChunkIdle
    /\ SplitIdle
    /\ WebIdle
    /\ TwoIdle

PathApply ==
    /\ wpPc = "input"
    /\ wpOnce' = Normalize(wpImpl, wpIn)
    /\ wpPc' = "once"
    /\ UNCHANGED <<wpImpl, wpIn, wpTwice, wpOff>>

PathApplyAgain ==
    /\ wpPc = "once"
    /\ wpTwice' = Normalize(wpImpl, wpOnce)
    /\ wpPc' = "twice"
    /\ UNCHANGED <<wpImpl, wpIn, wpOnce, wpOff>>

PathNext == PathApply \/ PathApplyAgain

SpecPath == PathInit /\ [][PathNext]_vars

\* p is a drive-letter absolute path such as C:\Users\a\f.mp3
IsDrivePath(p) ==
    /\ p # NoneValue
    /\ Len(p) >= 3
    /\ p[1] \in {"C", "c"} /\ p[2] = ":" /\ p[3] = "\\"

\* C16: to_wsl_path (both copies) is idempotent on every input; a
\* drive-letter path X:\rest maps to /mnt/x/rest with x the lower-case drive
\* and every backslash of rest turned into a slash; every other input (None,
\* POSIX-absolute, anything else) is returned unchanged.
C16_PathNormalization ==
    /\ wpPc = "twice" => wpTwice = wpOnce
    /\ wpPc \in {"once", "twice"} =>
          IF IsDrivePath(wpIn)
          THEN /\ Len(wpOnce) = Len(wpIn) + 4
               /\ SubSeq(wpOnce, 1, 5) = <<"/", "m", "n", "t", "/">>
               /\ wpOnce[6] = "c"
               /\ wpOnce[7] = "/"
               /\ \A i \in 4..Len(wpIn) :
                     wpOnce[i + 4] = (IF wpIn[i] = "\\" THEN "/" ELSE wpIn[i])
          ELSE wpOnce = wpIn

\* C:\c\ went through the copy of courses/utils/path.py twice.
C16_Witness ==
    /\ wpPc = "twice"
    /\ wpImpl = "utils"
    /\ wpIn = <<"C", ":", "\\", "c", "\\">>
    /\ wpTwice = <<"/", "m", "n", "t", "/", "c", "/", "c", "/">>

(***************************************************************************)
(* SpecWeb: one user, two upload_course requests (courses/views.py) and    *)
(* two runs of process_course_task (courses/tasks.py) in any interleaving. *)
(* A step is one access to the database or to the broker together with the *)
(* local computation before it.  A task message may be delivered to a      *)
(* second worker while the first still runs.                               *)
(***************************************************************************)
MaxBal == 2         \* balances the user's row starts with
MaxCost == 2        \* audio seconds / text characters of a request

\* quotas["free"]
QuotaAudio == 3 * 3600
QuotaText == 50000

Quota == [k \in Kinds |-> IF k = "audio" THEN QuotaAudio ELSE QuotaText]

ResultFields ==
    {"transcript_text", "course_markdown", "qcm_markdown", "exercises_markdown"}

Results(row) ==
    <<row.transcript_text, row.course_markdown, row.qcm_markdown,
      row.exercises_markdown>>

\* The exceptions a task run meets.
MissingFile == [type |-> "FileNotFoundError", msg |-> <<"Missing file">>]
NotFoundText == <<"Audio file not found">>
PipelineExcs ==
    {[type |-> "ProviderError", msg |-> <<"rate limit">>],
     [type |-> "FileNotFoundError", msg |-> <<"audio path">>]}

\* str(e)
StrOfExcEmpty(e) == EmptyText
StrOfExc(e) == e.msg

\* The PipelineOutputs of run i.
Outs(i) ==
    [transcript |-> <<"transcript", i>>, course |-> <<"course", i>>,
     qcm |-> <<"qcm", i>>, exercises |-> <<"exercises", i>>]

\* course.save(update_fields=fields): only these columns are written.
Save(row, obj, fields) ==
    [f \in DOMAIN row |-> IF f \in fields THEN obj[f] ELSE row[f]]

StartFields == {"state", "processing"}
MissingFields == {"error", "state", "processing"}
SuccessFields == ResultFields \cup {"processing", "state"}
\* course.save(update_fields=["processing", "state", "error"])
AllFields == DOMAIN NoRow
HandlerFields == {"processing", "state", "error"}

\* has_enough_audio / has_enough_text, on the in-memory user
HasEnough(balance, amount) == balance >= Max(0, amount)

\* .filter(pk=self.pk, audio_credits_s__gte=seconds).update(...): the WHERE
\* clause of the UPDATE, evaluated on the stored row.
DebitAppliesAlways(stored, amount) == TRUE
DebitApplies(stored, amount) == stored >= amount

\* debit_audio / debit_text: seconds = max(0, int(seconds or 0))
DebitNothing(amount) == 0
DebitAmount(amount) == Max(0, amount)

\* F("audio_credits_s") + duration_seconds
RefundNothing(amount) == 0
RefundAmount(amount) == amount

WebInit ==
    /\ \E b \in 0..MaxBal : wBal = [k \in Kinds |-> b]
    /\ wDue \in BOOLEAN
    /\ wBase = wBal
    /\ wReq = [r \in Reqs |-> NewReq("new")]
    /\ wCourses = <<>>
    /\ wBroker = [queued |-> {}, delivered |-> {}]
    /\ wInv = [i \in Invs |-> NewInv("idle")]
    /\ PlIdle
    /\ ChunkIdle
    /\ SplitIdle
    /\ PathIdle
    /\ TwoIdle

\* The requests and the runs are interchangeable: r1 is the request that
\* starts first, t1 the run that starts first.
StartsAfter(x) ==
    CASE x = "r2" -> {"r1"}
      [] x = "t2" -> {"t1"}
      [] OTHER -> {}

ReqMayStart(r) ==
    wReq[r].pc = "new" /\ \A q \in StartsAfter(r) : wReq[q].pc # "new"

InvMayStart(i) ==
    wInv[i].pc = "idle" /\ \A j \in StartsAfter(i) : wInv[j].pc # "idle"

Reject(r, why) ==
    wReq' = [wReq EXCEPT ![r].pc = "done", ![r].verdict = why]

\* if not form.is_valid(): ... return render(...)
ReqFormInvalid(r) ==
    /\ ReqMayStart(r)
    /\ Reject(r, "invalid_form")
    /\ UNCHANGED <<userVars, wCourses, wBroker, wInv, webOff>>

\* user = request.user: the row is read into memory.
ReqLoad(r) ==
    /\ ReqMayStart(r)
    /\ wReq' = [wReq EXCEPT ![r].pc = "loaded",
                            ![r].user = [audio |-> wBal["audio"],
                                         text |-> wBal["text"],
                                         due |-> wDue]]
    /\ UNCHANGED <<userVars, wCourses, wBroker, wInv, webOff>>

\* user.reset_monthly_credits(), then the source checks (one source, size,
\* MIME, duration readable): ok says whether they pass.
ReqReset(r, kind, cost, ok) ==
    /\ wReq[r].pc = "loaded"
    /\ LET u == wReq[r].user
           u2 == IF u.due
                 THEN [audio |-> QuotaAudio, text |-> QuotaText, due |-> FALSE]
                 ELSE u
       IN /\ IF u.due
             THEN /\ wBal' = Quota
                  /\ wDue' = FALSE
                  /\ wBase' = Quota
             ELSE UNCHANGED userVars
          /\ wReq' = [wReq EXCEPT
                        ![r].user = u2,
                        ![r].changed = u.due /\ wBal # Quota,
                        ![r].kind = IF ok THEN kind ELSE "none",
                        ![r].cost = IF ok THEN cost ELSE 0,
                        ![r].pc = IF ok THEN "credits" ELSE "done",
                        ![r].verdict = IF ok THEN "none" ELSE "bad_source"]
    /\ UNCHANGED <<wCourses, wBroker, wInv, webOff>>

\* The credits block: zero cost, has_enough_* on the in-memory user, then
\* the conditional UPDATE of debit_*.
ReqCredits(r) ==
    /\ wReq[r].pc = "credits"
    /\ LET k == wReq[r].kind
           cost == wReq[r].cost
           mine == IF k = "audio" THEN wReq[r].user.audio ELSE wReq[r].user.text
           amt == DebitAmount(cost)
       IN IF cost <= 0
          THEN Reject(r, "zero_cost") /\ UNCHANGED userVars
          ELSE IF ~HasEnough(mine, cost)
          THEN Reject(r, "insufficient") /\ UNCHANGED userVars
          ELSE IF DebitApplies(wBal[k], amt)
          THEN /\ wBal' = [wBal EXCEPT ![k] = @ - amt]
               /\ wReq' = [wReq EXCEPT ![r].pc = "create", ![r].debited = amt,
                                       ![r].changed = @ \/ amt > 0]
               /\ UNCHANGED <<wDue, wBase>>
          ELSE Reject(r, "lost_race") /\ UNCHANGED userVars
    /\ UNCHANGED <<wCourses, wBroker, wInv, webOff>>

\* Course.objects.create(..., processing=True, state="QUEUED", error="")
ReqCreate(r) ==
    /\ wReq[r].pc = "create"
    /\ wCourses' = Append(wCourses,
                          [NoRow EXCEPT !.state = "QUEUED", !.processing = TRUE,
                                        !.source_type = wReq[r].kind])
    /\ wReq' = [wReq EXCEPT ![r].pc = "dispatch", ![r].cid = Len(wCourses) + 1]
    /\ UNCHANGED <<userVars, wBroker, wInv, webOff>>

\* process_course_task.delay(...): the message is queued, or delay raises.
ReqDispatch(r, ok) ==
    /\ wReq[r].pc = "dispatch"
    /\ IF ok
       THEN /\ wBroker' = [wBroker EXCEPT !.queued = @ \cup {wReq[r].cid}]
            /\ wReq' = [wReq EXCEPT ![r].pc = "done", ![r].dispatch = "ok",
                                    ![r].verdict = "launched"]
       ELSE /\ wReq' = [wReq EXCEPT ![r].pc = "refund", ![r].dispatch = "failed"]
            /\ UNCHANGED wBroker
    /\ UNCHANGED <<userVars, wCourses, wInv, webOff>>

\* except Exception: ....update(audio_credits_s=F("audio_credits_s") + duration_seconds)
ReqRefund(r) ==
    /\ wReq[r].pc = "refund"
    /\ LET k == wReq[r].kind
           amt == RefundAmount(wReq[r].cost)
       IN /\ wBal' = [wBal EXCEPT ![k] = @ + amt]
          /\ wReq' = [wReq EXCEPT ![r].pc = "done", ![r].refunded = amt,
                                  ![r].verdict = "dispatch_error",
                                  ![r].changed = @ \/ amt > 0]
    /\ UNCHANGED <<wDue, wBase, wCourses, wBroker, wInv, webOff>>

\* course = Course.objects.get(id=course_id) and the SUCCESS guard.
Received(i, c) ==
    wInv' = [wInv EXCEPT
               ![i].cid = c,
               ![i].obj = wCourses[c],
               ![i].pc = IF wCourses[c].state = "SUCCESS" THEN "done" ELSE "start"]

\* A worker takes the message from the queue.
TaskReceive(i, c) ==
    /\ InvMayStart(i)
    /\ c \in wBroker.queued
    /\ wBroker' = [queued |-> wBroker.queued \ {c},
                   delivered |-> wBroker.delivered \cup {c}]
    /\ Received(i, c)
    /\ UNCHANGED <<userVars, wReq, wCourses, webOff>>

\* The broker hands a message it has not seen acknowledged to another worker.
TaskReceiveAgain(i, c) ==
    /\ InvMayStart(i)
    /\ c \in wBroker.delivered
    /\ Received(i, c)
    /\ UNCHANGED <<userVars, wReq, wCourses, wBroker, webOff>>

\* The row of run i after obj was saved with update_fields = fields.
Saved(i, obj, fields) ==
    [wCourses EXCEPT ![wInv[i].cid] = Save(@, obj, fields)]

\* course.state = "STARTED"; course.processing = True; course.save(...)
TaskStart(i) ==
    /\ wInv[i].pc = "start"
    /\ LET obj == [wInv[i].obj EXCEPT !.state = "STARTED", !.processing = TRUE]
           rows == Saved(i, obj, StartFields)
       IN /\ wCourses' = rows
          /\ wInv' = [wInv EXCEPT
                        ![i].pc = "run", ![i].obj = obj, ![i].started = TRUE,
                        ![i].end = rows[wInv[i].cid],
                        ![i].kept = Results(rows[wInv[i].cid])
                                        = Results(wCourses[wInv[i].cid])]
    /\ UNCHANGED <<userVars, wReq, wBroker, webOff>>

\* if not p.exists(): course.error = ...; course.save(...); raise FileNotFoundError
TaskFileMissing(i) ==
    /\ wInv[i].pc = "run"
    /\ wInv[i].obj.source_type = "audio"
    /\ LET obj == [wInv[i].obj EXCEPT !.error = NotFoundText,
                                      !.state = "FAILURE", !.processing = FALSE]
           rows == Saved(i, obj, MissingFields)
       IN /\ wCourses' = rows
          /\ wInv' = [wInv EXCEPT
                        ![i].pc = "handler", ![i].obj = obj,
                        ![i].exc = MissingFile,
                        ![i].end = rows[wInv[i].cid],
                        ![i].kept = /\ wInv[i].kept
                                    /\ Results(rows[wInv[i].cid])
                                           = Results(wCourses[wInv[i].cid])]
    /\ UNCHANGED <<userVars, wReq, wBroker, webOff>>

\* The pipeline returned: the single write of the results.
TaskPipelineOK(i) ==
    /\ wInv[i].pc = "run"
    /\ LET outs == Outs(i)
           obj == [wInv[i].obj EXCEPT
                     !.transcript_text = outs.transcript,
                     !.course_markdown = outs.course,
                     !.qcm_markdown = outs.qcm,
                     !.exercises_markdown = outs.exercises,
                     !.processing = FALSE,
                     !.state = "SUCCESS"]
           rows == Saved(i, obj, SuccessFields)
       IN /\ wCourses' = rows
          /\ wInv' = [wInv EXCEPT ![i].pc = "done", ![i].obj = obj,
                                  ![i].end = rows[wInv[i].cid]]
    /\ UNCHANGED <<userVars, wReq, wBroker, webOff>>

\* pipeline_from_audio / pipeline_from_text raised e.
TaskPipelineRaise(i, e) ==
    /\ wInv[i].pc = "run"
    /\ wInv' = [wInv EXCEPT ![i].pc = "handler", ![i].exc = e]
    /\ UNCHANGED <<userVars, wReq, wCourses, wBroker, webOff>>

\* except Exception as e: ...; course.error = str(e); course.save(...); raise
TaskHandler(i) ==
    /\ wInv[i].pc = "handler"
    /\ LET obj == [wInv[i].obj EXCEPT !.processing = FALSE, !.state = "FAILURE",
                                      !.error = StrOfExc(wInv[i].exc)]
           rows == Saved(i, obj, HandlerFields)
       IN /\ wCourses' = rows
          /\ wInv' = [wInv EXCEPT
                        ![i].pc = "done", ![i].obj = obj,
                        ![i].end = rows[wInv[i].cid],
                        ![i].kept = /\ wInv[i].kept
                                    /\ Results(rows[wInv[i].cid])
                                           = Results(wCourses[wInv[i].cid])]
    /\ UNCHANGED <<userVars, wReq, wBroker, webOff>>

WebNext ==
    \/ \E r \in Reqs : ReqFormInvalid(r)
    \/ \E r \in Reqs : ReqLoad(r)
    \/ \E r \in Reqs, kind \in Kinds, cost \in 0..MaxCost, ok \in BOOLEAN :
           ReqReset(r, kind, cost, ok)
    \/ \E r \in Reqs : ReqCredits(r)
    \/ \E r \in Reqs : ReqCreate(r)
    \/ \E r \in Reqs, ok \in BOOLEAN : ReqDispatch(r, ok)
    \/ \E r \in Reqs : ReqRefund(r)
    \/ \E i \in Invs, c \in 1..Len(wCourses) : TaskReceive(i, c)
    \/ \E i \in Invs, c \in 1..Len(wCourses) : TaskReceiveAgain(i, c)
    \/ \E i \in Invs : TaskStart(i)
    \/ \E i \in Invs : TaskFileMissing(i)
    \/ \E i \in Invs : TaskPipelineOK(i)
    \/ \E i \in Invs, e \in PipelineExcs : TaskPipelineRaise(i, e)
    \/ \E i \in Invs : TaskHandler(i)

SpecWeb == WebInit /\ [][WebNext]_vars

RECURSIVE NetDebits(_, _)
\* What the requests of set rs have taken from balance k and not given back.
NetDebits(rs, k) ==
    IF rs = {} THEN 0
    ELSE LET r == CHOOSE x \in rs : TRUE
         IN (IF wReq[r].kind = k THEN wReq[r].debited - wReq[r].refunded ELSE 0)
                + NetDebits(rs \ {r}, k)

\* C18: upload_course gives the debited credits back if and only if the
\* dispatch of the task failed, and then exactly the amount debited; a
\* request whose task was dispatched gets nothing back, also when the task
\* ends in FAILURE: while no monthly reset has rewritten the balances, each
\* balance is the starting one minus the debits not refunded.
C18_RefundIffDispatchFailed ==
    /\ \A r \in Reqs :
          /\ wReq[r].refunded =
                 IF wReq[r].pc = "done" /\ wReq[r].dispatch = "failed"
                 THEN wReq[r].debited ELSE 0
          /\ wReq[r].dispatch # "none" =>
                 wReq[r].debited = wReq[r].cost /\ wReq[r].cost > 0
    /\ wBase # Quota =>
          \A k \in Kinds : wBal[k] = wBase[k] - NetDebits(Reqs, k)

\* One request was refunded after its dispatch failed; the task of the other
\* ended in FAILURE and its debit stays.
C18_Witness ==
    \E r \in Reqs, q \in Reqs :
        /\ wReq[r].pc = "done" /\ wReq[r].dispatch = "failed"
        /\ wReq[r].debited > 0 /\ wReq[r].refunded = wReq[r].debited
        /\ wReq[q].dispatch = "ok" /\ wReq[q].kind = wReq[r].kind
        /\ wCourses[wReq[q].cid].state = "FAILURE"
        /\ wBase # Quota
        /\ wBal[wReq[q].kind] = wBase[wReq[q].kind] - wReq[q].debited

CourseStates == {"QUEUED", "STARTED", "SUCCESS", "FAILURE"}

\* Run i went past the SUCCESS guard and is over.
RunOver(i) == wInv[i].pc = "done" /\ wInv[i].started

NoResults == <<EmptyText, EmptyText, EmptyText, EmptyText>>

OutsWritten(i) ==
    <<Outs(i).transcript, Outs(i).course, Outs(i).qcm, Outs(i).exercises>>

\* C20: a run of process_course_task that fails changes none of the four
\* result fields of its course; the result fields of a course are empty, or
\* all four hold the outputs of one run whose pipeline returned, written in
\* the one save that set the state to SUCCESS.
C20_ResultsOnlyOnSuccess ==
    /\ \A i \in Invs : wInv[i].exc # NoExcW => wInv[i].kept
    /\ \A c \in 1..Len(wCourses) :
          \/ Results(wCourses[c]) = NoResults
          \/ \E i \in Invs :
                /\ wInv[i].cid = c /\ RunOver(i) /\ wInv[i].exc = NoExcW
                /\ wInv[i].end.state = "SUCCESS"
                /\ Results(wInv[i].end) = OutsWritten(i)
                /\ Results(wCourses[c]) = OutsWritten(i)

\* A run failed after another run on the same course had written its
\* results, and left them as they were.
C20_Witness ==
    \E i \in Invs, j \in Invs :
        /\ i # j /\ wInv[i].cid = wInv[j].cid
        /\ RunOver(i) /\ wInv[i].exc # NoExcW
        /\ RunOver(j) /\ wInv[j].exc = NoExcW
        /\ Results(wInv[i].end) = OutsWritten(j)
        /\ wInv[i].end.state = "FAILURE"
        /\ Results(wCourses[wInv[i].cid]) = OutsWritten(j)

\* The steps of the requests and of the task runs when the broker delivers
\* every message once.
WebNextOnce ==
    \/ \E r \in Reqs : ReqFormInvalid(r)
    \/ \E r \in Reqs : ReqLoad(r)
    \/ \E r \in Reqs, kind \in Kinds, cost \in 0..MaxCost, ok \in BOOLEAN :
           ReqReset(r, kind, cost, ok)
    \/ \E r \in Reqs : ReqCredits(r)
    \/ \E r \in Reqs : ReqCreate(r)
    \/ \E r \in Reqs, ok \in BOOLEAN : ReqDispatch(r, ok)
    \/ \E r \in Reqs : ReqRefund(r)
    \/ \E i \in Invs, c \in 1..Len(wCourses) : TaskReceive(i, c)
    \/ \E i \in Invs : TaskStart(i)
    \/ \E i \in Invs : TaskFileMissing(i)
    \/ \E i \in Invs : TaskPipelineOK(i)
    \/ \E i \in Invs, e \in PipelineExcs : TaskPipelineRaise(i, e)
    \/ \E i \in Invs : TaskHandler(i)

\* Every view and every task run goes on to its next statement, and a
\* worker takes every queued message: there is a run for each course, and
\* the pipeline returns or raises.
SpecWebFair == WebInit /\ [][WebNextOnce]_vars /\ WF_vars(WebNextOnce)

\* Course c is in progress / is over.
InProgress(c) ==
    /\ c <= Len(wCourses)
    /\ wCourses[c].processing
    /\ wCourses[c].state = "QUEUED"

Settled(c) ==
    /\ c <= Len(wCourses)
    /\ ~wCourses[c].processing
    /\ wCourses[c].state \in {"SUCCESS", "FAILURE"}

\* C28: every course created by upload_course, with processing True and
\* state QUEUED, eventually reaches SUCCESS or FAILURE with processing
\* False, also when the dispatch of its task failed right after the row was
\* created.
C28_CourseEventuallySettles ==
    \A c \in 1..Cardinality(Reqs) : InProgress(c) ~> Settled(c)

\* C26: once a course is in state SUCCESS, no step of a process_course_task
\* run changes its state or its four result fields again, whatever the
\* interleaving of two runs on the same course, also when one of them passed
\* the SUCCESS guard before the other one finished.
C26_SuccessIsFinal ==
    [][\A c \in 1..Len(wCourses) :
           wCourses[c].state = "SUCCESS" =>
               /\ wCourses'[c].state = "SUCCESS"
               /\ Results(wCourses'[c]) = Results(wCourses[c])]_vars

\* Request r leaves the credits block in this step.
LeavesCredits(r) == wReq[r].pc = "credits" /\ wReq'[r].pc # "credits"

\* C27: audio_credits_s and text_credits_ch never become negative; for every
\* interleaving of the debit_audio / debit_text calls of concurrent requests
\* on the same user, a debit succeeds only if the stored balance at the
\* moment of the update is at least the amount and then takes exactly the
\* amount from that balance, a debit that fails leaves both balances as
\* they are, and (while no monthly reset has rewritten the balances) the
\* debits that were not refunded never exceed the starting balance.
C27_BalancesNeverNegative ==
    /\ [](\A k \in Kinds :
             /\ wBal[k] >= 0
             /\ wBase # Quota => NetDebits(Reqs, k) <= wBase[k])
    /\ [][\A r \in Reqs :
             LeavesCredits(r) =>
                 IF wReq'[r].debited > 0
                 THEN /\ wBal[wReq[r].kind] >= wReq'[r].debited
                      /\ wReq'[r].debited = wReq[r].cost
                      /\ wBal' = [wBal EXCEPT ![wReq[r].kind] =
                                                  @ - wReq'[r].debited]
                 ELSE wBal' = wBal]_vars

\* Two requests of one kind both passed has_enough on the balance they had
\* read; the debit of one went through, the other lost the race.
C27_Witness ==
    \E r \in Reqs, q \in Reqs :
        /\ wReq[r].debited = MaxBal /\ wReq[r].refunded = 0
        /\ wReq[q].verdict = "lost_race"
        /\ wReq[q].kind = wReq[r].kind
        /\ wBase # Quota
        /\ wBal[wReq[r].kind] = 0

\* The verdicts of a request that upload_course turned down.
Rejections == {"invalid_form", "bad_source", "zero_cost", "insufficient", "lost_race"}

\* A Course row exists only for a request whose debit of exactly its cost
\* went through.
CourseOnlyAfterDebit ==
    \A r \in Reqs :
        /\ wReq[r].pc \in {"create", "dispatch", "refund"} \/ wReq[r].cid # 0 =>
               wReq[r].debited = wReq[r].cost /\ wReq[r].cost > 0
        /\ Len(wCourses) = Cardinality({q \in Reqs : wReq[q].cid # 0})

\* C29 as stated: upload_course creates a Course row only after a debit of
\* exactly the request's cost has succeeded; every rejected request creates
\* no course and leaves both balances unchanged.
C29_RejectedChangesNothing ==
    /\ CourseOnlyAfterDebit
    /\ \A r \in Reqs :
           wReq[r].verdict \in Rejections =>
               wReq[r].cid = 0 /\ ~wReq[r].changed

\* C29, amended: upload_course creates a Course row only after a debit of
\* exactly the request's cost has succeeded; every rejected request creates
\* no course and debits and refunds nothing: it leaves both balances
\* unchanged except for the monthly reset, which upload_course applies when
\* it is due before it checks the sources and the credits (a request with an
\* invalid form returns before that and changes nothing).
C29_RejectedChangesNothingButReset ==
    /\ CourseOnlyAfterDebit
    /\ \A r \in Reqs :
           wReq[r].verdict \in Rejections =>
               /\ wReq[r].cid = 0
               /\ wReq[r].debited = 0 /\ wReq[r].refunded = 0
               /\ wReq[r].changed =>
                      /\ wReq[r].verdict # "invalid_form"
                      /\ wReq[r].user = [audio |-> QuotaAudio, text |-> QuotaText,
                                         due |-> FALSE]
                      /\ wBase = Quota

\* A request was turned down for insufficient credits while the debit of
\* the other went through and its course was created; no reset took place.
C29_Witness ==
    \E r \in Reqs, q \in Reqs :
        /\ wReq[r].verdict = "insufficient" /\ ~wReq[r].changed
        /\ wReq[q].cid # 0 /\ wReq[q].debited = wReq[q].cost
        /\ wBase # Quota
        /\ Len(wCourses) = 1

(***************************************************************************)
(* SpecTwo: two pipeline_from_audio calls on different source paths, their *)
(* steps interleaved, sharing one disk.  A path is <<base, idxs>>: the     *)
(* name base + ".mp3" followed by one "_part{i}.mp3" per index of idxs, so *)
(* that a source can itself be named like a segment.  os.remove is taken   *)
(* to go through here; the model calls are one step.                       *)
(***************************************************************************)
Src(b) == <<b, <<>>>>

\* out = f"{file_path}_part{i}.mp3"
SegmentPath(p, i) == <<p[1], Append(p[2], i)>>

\* The source paths the two calls are made with.
Sources == {Src("a1"), Src("a[1]"), Src("b"), SegmentPath(Src("a1"), 0)}

\* The base name the text b matches when it is read as a glob pattern:
\* "[1]" is a character class, it matches the one character "1".
GlobLiteral(b) == IF b = "a[1]" THEN "a1" ELSE b

\* Whether q is among glob.glob(f"{p}_part*.mp3"): p is not escaped, and the
\* star also spans the "_part{i}.mp3" of further indices.
GlobMatches(p, q) ==
    /\ q[1] = GlobLiteral(p[1])
    /\ Len(q[2]) > Len(p[2])
    /\ SubSeq(q[2], 1, Len(p[2])) = p[2]

Other(r) == 3 - r

\* The files of call r: its source, and the segment files it wrote (a
\* source stays the file of the call that was made with it).
Belongs(r, p) ==
    \/ p = twRun[r].src
    \/ p \in twRun[r].made /\ p # twRun[Other(r)].src

\* What call r does to the files of the other call by writing or removing
\* the paths ps.
Harm(what, r, ps) ==
    {<<what, r, p>> : p \in {q \in ps \cap twFs : Belongs(Other(r), q)}}

SeqRange(seq) == {seq[i] : i \in 1..Len(seq)}

TwoInit ==
    /\ twDelete \in BOOLEAN
    /\ \E p \in Sources, q \in Sources :
           /\ p # q
           /\ twRun = [r \in Runs |-> NewRun(IF r = 1 THEN p ELSE q, "idle")]
           /\ twFs = {p, q}
    /\ twHarm = {}
    /\ PlIdle
    /\ ChunkIdle
    /\ SplitIdle
    /\ PathIdle
    /\ WebIdle

\* if not Path(audio_path).exists(): raise FileNotFoundError(audio_path)
TwoStart(r) ==
    /\ twRun[r].pc = "idle"
    /\ twRun' = [twRun EXCEPT ![r] =
                    IF @.src \in twFs THEN [@ EXCEPT !.pc = "split"]
                    ELSE [@ EXCEPT !.pc = "done", !.exc = "missing"]]
    /\ UNCHANGED <<twDelete, twFs, twHarm, twOff>>

\* split_audio_by_size loads the audio and cuts it into n spans.
TwoSplitLoad(r, n) ==
    /\ twRun[r].pc = "split"
    /\ twRun[r].src \in twFs
    /\ twRun' = [twRun EXCEPT ![r].pc = "export", ![r].plan = n]
    /\ UNCHANGED <<twDelete, twFs, twHarm, twOff>>

\* split_audio_by_size raises before any export (the file is gone, or
\* cannot be decoded).
TwoSplitFail(r) ==
    /\ twRun[r].pc = "split"
    /\ twRun' = [twRun EXCEPT ![r].pc = "cleanup_parts", ![r].exc = "split"]
    /\ UNCHANGED <<twDelete, twFs, twHarm, twOff>>

\* ch.export(out, format="mp3"); out_paths.append(out); after the last one
\* split_audio_by_size returns and parts is assigned.
TwoExport(r) ==
    /\ twRun[r].pc = "export"
    /\ LET out == SegmentPath(twRun[r].src, Len(twRun[r].out))
           paths == Append(twRun[r].out, out)
           last == Len(paths) = twRun[r].plan
       IN /\ twFs' = twFs \cup {out}
          /\ twHarm' = twHarm \cup Harm("overwrite", r, {out})
          /\ twRun' = [twRun EXCEPT
                          ![r].out = paths,
                          ![r].made = @ \cup {out},
                          ![r].parts = IF last THEN paths ELSE @,
                          ![r].pc = IF last THEN "stages" ELSE "export"]
    /\ UNCHANGED <<twDelete, twOff>>

\* ch.export raises; the file it had opened for writing may be left behind.
TwoExportFail(r, leaves) ==
    /\ twRun[r].pc = "export"
    /\ LET out == SegmentPath(twRun[r].src, Len(twRun[r].out))
           wrote == IF leaves THEN {out} ELSE {}
       IN /\ twFs' = twFs \cup wrote
          /\ twHarm' = twHarm \cup Harm("overwrite", r, wrote)
          /\ twRun' = [twRun EXCEPT
                          ![r].made = @ \cup wrote,
                          ![r].pc = "cleanup_parts",
                          ![r].exc = "export"]
    /\ UNCHANGED <<twDelete, twOff>>

\* The stages after the split: they return, or one of them raises;
\* transcribe_audio opens every segment, so they return only if the
\* segments are there.
TwoStages(r, ok) ==
    /\ twRun[r].pc = "stages"
    /\ ok => SeqRange(twRun[r].parts) \subseteq twFs
    /\ twRun' = [twRun EXCEPT ![r].pc = "cleanup_parts",
                              ![r].exc = IF ok THEN "none" ELSE "stage"]
    /\ UNCHANGED <<twDelete, twFs, twHarm, twOff>>

\* if part_paths: for p in part_paths: _safe_rm(p)
TwoRmParts(r) ==
    /\ twRun[r].pc = "cleanup_parts"
    /\ LET gone == SeqRange(twRun[r].parts)
       IN /\ twFs' = twFs \ gone
          /\ twHarm' = twHarm \cup Harm("remove", r, gone)
    /\ twRun' = [twRun EXCEPT ![r].pc = "cleanup_sweep"]
    /\ UNCHANGED <<twDelete, twOff>>

\* for p in glob.glob(f"{original_path}_part*.mp3"): _safe_rm(p)
TwoSweep(r) ==
    /\ twRun[r].pc = "cleanup_sweep"
    /\ LET gone == {q \in twFs : GlobMatches(twRun[r].src, q)}
       IN /\ twFs' = twFs \ gone
          /\ twHarm' = twHarm \cup Harm("remove", r, gone)
    /\ twRun' = [twRun EXCEPT ![r].pc = "cleanup_orig"]
    /\ UNCHANGED <<twDelete, twOff>>

\* if DELETE_ORIGINAL_AUDIO: _safe_rm(original_path); the call is over.
TwoRmOrig(r) ==
    /\ twRun[r].pc = "cleanup_orig"
    /\ LET gone == IF DeletesOriginal(twDelete) THEN {twRun[r].src} ELSE {}
       IN /\ twFs' = twFs \ gone
          /\ twHarm' = twHarm \cup Harm("remove", r, gone)
    /\ twRun' = [twRun EXCEPT ![r].pc = "done"]
    /\ UNCHANGED <<twDelete, twOff>>

TwoNext ==
    \/ \E r \in Runs : TwoStart(r)
    \/ \E r \in Runs, n \in 1..MaxParts : TwoSplitLoad(r, n)
    \/ \E r \in Runs : TwoSplitFail(r)
    \/ \E r \in Runs : TwoExport(r)
    \/ \E r \in Runs, leaves \in BOOLEAN : TwoExportFail(r, leaves)
    \/ \E r \in Runs, ok \in BOOLEAN : TwoStages(r, ok)
    \/ \E r \in Runs : TwoRmParts(r)
    \/ \E r \in Runs : TwoSweep(r)
    \/ \E r \in Runs : TwoRmOrig(r)

SpecTwo == TwoInit /\ [][TwoNext]_vars

\* C22: two pipeline_from_audio calls on different source paths, in any
\* interleaving, do not interfere: the segmentation of neither overwrites,
\* and the cleanup of neither removes, a segment file or the source file of
\* the other.
C22_NoInterference == twHarm = {}

\* split_audio_by_size of call r raised after it had written segment files,
\* and the call is over; the other call has not been made.
SplitRaisedAfterExport(r) ==
    /\ twRun[r].pc = "done"
    /\ twRun[r].exc = "export"
    /\ twRun[r].made # {}
    /\ twRun[Other(r)].pc = "idle"

\* C30: when split_audio_by_size raises after it has exported some segment
\* files, none of them exists when pipeline_from_audio passes the exception
\* on, although the list of segment paths was never returned.
C30_PartialSegmentsDeleted ==
    \A r \in Runs :
        SplitRaisedAfterExport(r) =>
            /\ twRun[r].parts = <<>>
            /\ twRun[r].made \cap twFs = {}

====
